---------------------------- MODULE Spec2Model ----------------------------
(***************************************************************************)
(* Model of the StockSignal technical-indicator and signal-classification *)
(* pipeline (src/StockSignal/technical_indicators.py, src/stock_fetcher.py,*)
(* src/StockSignal/main.py).                                               *)
(*                                                                         *)
(* Numbers: prices and indicator values are floats in the source; here they*)
(* are integers, with inputs drawn so that every division the code makes  *)
(* is exact.  NaN is a distinguished value with IEEE comparison semantics: *)
(* every ordered comparison with NaN is false.                             *)
(***************************************************************************)
EXTENDS Integers, Sequences, FiniteSets, TLC

(***************************************************************************)
(* NaN and NaN-aware comparisons (numpy / pandas float semantics).         *)
(***************************************************************************)
NaN == -999999

isna(x) == x = NaN

\* an empty text cell read back from a CSV file
NaNText == "nan"

Gt(a, b) == ~isna(a) /\ ~isna(b) /\ a > b
Lt(a, b) == ~isna(a) /\ ~isna(b) /\ a < b
Ge(a, b) == ~isna(a) /\ ~isna(b) /\ a >= b
Le(a, b) == ~isna(a) /\ ~isna(b) /\ a <= b

(***************************************************************************)
(* Bounds of the model.                                                    *)
(***************************************************************************)
\* longest indicator table handed to the classifiers, counted without the
\* warm-up rows of the long RCI: one bar more than the look-back of MACD+RCI
MaxBars == 6
\* RCI: longest close series, largest close, longest window
MaxRciBars == 4
MaxPrice == 3
MaxRciPeriod == 4
\* batch run: largest universe, longest fetched history
MaxTickers == 2
MaxHist == 6
\* the volume of every bar of a fetched history
FlatVolume == 200000
\* trend extraction: longest history
MaxTrendBars == 80
\* breakout extraction: longest signal file
MaxBreakoutRows == 95
\* Ichimoku: longest price series
MaxIchLen == 80
\* cloud judgement on hand-made spans: number of bars
MaxCloudBars == 2

(***************************************************************************)
(* Configuration (src/config.py).                                          *)
(***************************************************************************)
RSI_SHORT_PERIOD == 9
RSI_LONG_PERIOD == 14
RCI_SHORT_PERIOD == 9
RCI_LONG_PERIOD == 26
ICHIMOKU_TENKAN_PERIOD == 9
ICHIMOKU_KIJUN_PERIOD == 26
ICHIMOKU_SENKOU_SPAN_B_PERIOD == 52
ICHIMOKU_DISPLACEMENT == 26
MACD_SLOW_PERIOD == 26
MACD_SIGNAL_PERIOD == 9

(***************************************************************************)
(* Signal classifier.  A table df is a sequence of rows (index 1 is the    *)
(* oldest bar, pandas position 0); a row maps column names to values.      *)
(* columns is the set of column names the table holds.                     *)
(***************************************************************************)
VARIABLES
    df,         \* the indicator table handed to the classifiers
    columns,    \* the column names present in df
    signals,    \* per rule: [raised, col]: the signal column the rule wrote
    pcSig       \* position in calculate_all_indicators' classifier calls

sigVars == <<df, columns, signals, pcSig>>

(***************************************************************************)
(* calculate_rci, for one window length.                                   *)
(***************************************************************************)
VARIABLES
    close,        \* df['Close'].values
    period,       \* the window length (config.RCI_SHORT_PERIOD / RCI_LONG_PERIOD)
    rci,          \* the RCI array filled so far, each value a fraction num/den
    rciPos,       \* the loop index i of `for i in range(data_length)`
    price_ranks   \* the price ranks of the newest computed window

rciVars == <<close, period, rci, rciPos, price_ranks>>

(***************************************************************************)
(* One run of StockSignal/main.py over the universe.                       *)
(***************************************************************************)
VARIABLES
    charts_only,         \* the --charts-only flag
    company_list,        \* the roster file as load_company_list finds it
    fetch_log,           \* the log records of fetch_stock_data that name a ticker
    tickers,             \* load_company_list(): the universe, in order
    yf,                  \* what stock.history() does for each ticker when called
    price_csv,           \* Result/{ticker}.csv
    stock_data,          \* fetch_stock_data(): its result dictionary
    results,             \* calculate_signals(): its result dictionary
    signal_csv,          \* TechnicalSignal/{ticker}_signal.csv
    latest_csv,          \* TechnicalSignal/{ticker}_latest_signal.csv
    all_latest_signals,  \* calculate_signals(): the latest rows collected
    snapshot,            \* TechnicalSignal/latest_signal.csv
    extract_success,     \* what extract_signals() returned
    pos,                 \* position of the running loop in tickers
    pcMain,              \* where main() is
    strong_buying_trend, \* Result/strong_buying_trend.csv
    strong_selling_trend,\* Result/strong_selling_trend.csv
    push_mark,           \* Result/push_mark.csv
    bb_macd_csv,         \* Result/bb_macd_{buy,sell}_signals.csv, by name
    sanyaku_csv          \* Result/sanyaku_{kouten,anten}.csv, by name

\* the result files of the extractors
outVars == <<strong_buying_trend, strong_selling_trend, push_mark, bb_macd_csv, sanyaku_csv>>

batchVars == <<charts_only, company_list, fetch_log, tickers, yf, price_csv, stock_data, results,
               signal_csv, latest_csv, all_latest_signals, snapshot,
               extract_success, pos, pcMain, outVars>>

(***************************************************************************)
(* calculate_ichimoku on two price series that agree up to a bar.          *)
(***************************************************************************)
VARIABLES
    ich,      \* the two runs: their input arrays and the arrays computed so far
    agree,    \* the last index up to which the two series agree
    pcIch     \* the pass calculate_ichimoku is about to make

ichVars == <<ich, agree, pcIch>>

(***************************************************************************)
(* identify_range_breakouts over the signal files of TechnicalSignal/.     *)
(***************************************************************************)
VARIABLES
    csv_files,    \* the *_signal.csv files of technical_dir, by ticker
    Range_Brake,  \* Result/Range_Brake.csv
    pcBreak       \* where identify_range_breakouts is

breakVars == <<csv_files, Range_Brake, pcBreak>>

(***************************************************************************)
(* extract_signals over the combined snapshot, in the two revisions of the *)
(* repository: StockSignal/extract_signals.py and extract_signals.py.      *)
(***************************************************************************)
VARIABLES
    latest_signal,  \* TechnicalSignal/latest_signal.csv as extract_signals reads it
    result_csv,     \* the signal tables under Result/, by file name
    pcExtract       \* where extract_signals is, and which revision ran

wickVars == <<latest_signal, result_csv, pcExtract>>

(***************************************************************************)
(* extract_ichimoku_cross_signals.                                         *)
(***************************************************************************)
VARIABLES
    ichimoku_cross, \* Result/ichimoku_{GC,DC}_{under,upper}_cloud.csv, by name
    cross_log,      \* the log records of the loop over all_tickers
    blocked,        \* the paths under Result/ a directory stands at
    ichimoku_results \* what extract_all_ichimoku_signals returned and ran

crossVars == <<ichimoku_cross, cross_log, blocked, ichimoku_results>>

(***************************************************************************)
(* result_backup over consecutive runs of the breakout extraction.         *)
(***************************************************************************)
VARIABLES
    result_files,         \* Result/Breakout.csv and Result/push_mark.csv
    previous_files,       \* Result/Previous/Breakout.csv and push_mark.csv
    consecutive_tickers,  \* what get_consecutive_tickers returned in this run
    display_names,        \* the names shown for the rows of the breakout output
    run                   \* the number of the run, 0 outside the runs

runVars == <<result_files, previous_files, consecutive_tickers, display_names, run>>

(***************************************************************************)
(* upload_image_to_wordpress: the POST of one chart image, with retries.   *)
(***************************************************************************)
VARIABLES
    attempt,        \* the loop variable of `for attempt in range(5)`
    responses,      \* what requests.post did at each attempt so far
    sleeps,         \* the arguments of the time.sleep calls made so far
    upload_result,  \* what upload_image_to_wordpress returned
    pcUpload        \* where upload_image_to_wordpress is

uploadVars == <<attempt, responses, sleeps, upload_result, pcUpload>>

\* the variables of the extractors that are modelled on their own
extVars == <<breakVars, wickVars, crossVars, runVars, uploadVars>>

\* f'RSI{config.RSI_SHORT_PERIOD}' and friends; the digits follow the config
rsi_short_col == "RSI9"
rsi_long_col == "RSI14"
rci_short_column == "RCI9"
rci_long_column == "RCI26"

AllCols == {"MACD", "MACD_Signal", rsi_short_col, rsi_long_col,
            rci_short_column, rci_long_column, "Close", "BB_Middle"}

Rules == {"MACD-RSI", "MACD-RCI", "BB-MACD"}

\* the result of one classifier call: raised is TRUE when the call ended in
\* an exception (a KeyError on an absent column); col is the signal column
Returned(col) == [raised |-> FALSE, col |-> col]
KeyError == [raised |-> TRUE, col |-> <<>>]

EmptyColumn(t) == [i \in 1..Len(t) |-> ""]

\* missing_columns = [col for col in required_columns if col not in result.columns]
MissingColumnsNoCheck(required, cols) == {}
MissingColumns(required, cols) == {c \in required : c \notin cols}

\* ----- MACD + RSI ---------------------------------------------------------
MacdRsiRequired == {"MACD", "MACD_Signal", rsi_short_col, rsi_long_col}

buy_condition_strict40(row) ==
    /\ Gt(row["MACD"], row["MACD_Signal"])
    /\ Gt(row[rsi_short_col], row[rsi_long_col])
    /\ Lt(row[rsi_long_col], 40)
buy_condition(row) ==
    /\ Gt(row["MACD"], row["MACD_Signal"])
    /\ Gt(row[rsi_short_col], row[rsi_long_col])
    /\ Le(row[rsi_long_col], 40)

sell_condition(row) ==
    /\ Lt(row["MACD"], row["MACD_Signal"])
    /\ Lt(row[rsi_short_col], row[rsi_long_col])
    /\ Ge(row[rsi_long_col], 60)

\* result['MACD-RSI'] = ''; .loc[buy] = 'Buy'; then .loc[sell] = 'Sell'
MacdRsiLabel(row) ==
    LET afterBuy == IF buy_condition(row) THEN "Buy" ELSE ""
    IN  IF sell_condition(row) THEN "Sell" ELSE afterBuy

calculate_trading_signals_MACD_RSI(t, cols) ==
    IF MissingColumns(MacdRsiRequired, cols) # {}
    THEN Returned(EmptyColumn(t))
    ELSE IF ~(MacdRsiRequired \subseteq cols)
         THEN KeyError
         ELSE Returned([i \in 1..Len(t) |-> MacdRsiLabel(t[i])])

\* ----- MACD + RCI ---------------------------------------------------------
MacdRciRequired == {"MACD", "MACD_Signal", rci_long_column, rci_short_column}

\* past_5days = result.iloc[i-4:i+1]: the five rows ending at row i
past_5days(t, i) == SubSeq(t, i - 4, i)

\* for j in range(len(past_5days) - 1): iloc[j] <= -80 and iloc[j+1] > -80
rci_crosses_above_minus_80(p) ==
    \E j \in 1..(Len(p) - 1) :
        /\ Le(p[j][rci_long_column], -80)
        /\ Gt(p[j + 1][rci_long_column], -80)

rci_crosses_below_80(p) ==
    \E j \in 1..(Len(p) - 1) :
        /\ Ge(p[j][rci_long_column], 80)
        /\ Lt(p[j + 1][rci_long_column], 80)

\* the body of the loop with a look-back of six bars, result.iloc[i-5:i+1]
MacdRciLabelWindow6(t, i) ==
    LET row == t[i]
        past_6days == SubSeq(t, IF i > 5 THEN i - 5 ELSE 1, i)
    IN  IF /\ rci_crosses_above_minus_80(past_6days)
           /\ Gt(row["MACD"], row["MACD_Signal"])
           /\ Ge(row[rci_short_column], 50)
        THEN "Buy"
        ELSE IF /\ rci_crosses_below_80(past_6days)
                /\ Lt(row["MACD"], row["MACD_Signal"])
                /\ Le(row[rci_short_column], -50)
             THEN "Sell"
             ELSE ""
\* the body of `for i in range(4, len(result))`, for the row at position i
MacdRciLabel(t, i) ==
    LET row == t[i]
        macd_above_signal == Gt(row["MACD"], row["MACD_Signal"])
        macd_below_signal == Lt(row["MACD"], row["MACD_Signal"])
        rci_short_above_50 == Ge(row[rci_short_column], 50)
        rci_short_below_minus_50 == Le(row[rci_short_column], -50)
    IN  IF /\ rci_crosses_above_minus_80(past_5days(t, i))
           /\ macd_above_signal /\ rci_short_above_50
        THEN "Buy"
        ELSE IF /\ rci_crosses_below_80(past_5days(t, i))
                /\ macd_below_signal /\ rci_short_below_minus_50
             THEN "Sell"
             ELSE ""

calculate_trading_signals_MACD_RCI(t, cols) ==
    IF MissingColumns(MacdRciRequired, cols) # {}
    THEN Returned(EmptyColumn(t))
    ELSE IF ~(MacdRciRequired \subseteq cols)
         THEN KeyError
         ELSE IF Len(t) < 5
              THEN Returned(EmptyColumn(t))
              ELSE Returned([i \in 1..Len(t) |->
                        IF i >= 5 THEN MacdRciLabel(t, i) ELSE ""])

\* ----- BB + MACD ----------------------------------------------------------
BbMacdRequired == {"Close", "BB_Middle", "MACD", "MACD_Signal"}

\* the body of `for i in range(2, len(result))`, for the row at position i
BbMacdLabelLag0(t, i) ==
    LET cur == t[i]
        prev == t[i - 1]
    IN  IF \/ isna(cur["Close"]) \/ isna(cur["BB_Middle"])
           \/ isna(cur["MACD"]) \/ isna(cur["MACD_Signal"])
        THEN ""
        ELSE IF /\ cur["Close"] > cur["BB_Middle"]
                /\ cur["MACD"] > cur["MACD_Signal"]
                /\ \/ Lt(prev["MACD"], prev["MACD_Signal"])
                   \/ Lt(t[i - 2]["MACD"], t[i - 2]["MACD_Signal"])
             THEN "Buy"
             ELSE IF /\ cur["Close"] < cur["BB_Middle"]
                     /\ cur["MACD"] < cur["MACD_Signal"]
                     /\ \/ Gt(prev["MACD"], prev["MACD_Signal"])
                        \/ Gt(t[i - 2]["MACD"], t[i - 2]["MACD_Signal"])
                  THEN "Sell"
                  ELSE ""
BbMacdLabelPrev(t, i) ==
    LET cur == t[i]
        prev == t[i - 1]
    IN  IF \/ isna(cur["Close"]) \/ isna(cur["BB_Middle"])
           \/ isna(cur["MACD"]) \/ isna(cur["MACD_Signal"])
           \/ isna(prev["MACD"]) \/ isna(prev["MACD_Signal"])
        THEN ""
        ELSE IF /\ cur["Close"] > cur["BB_Middle"]
                /\ cur["MACD"] > cur["MACD_Signal"]
                /\ prev["MACD"] < prev["MACD_Signal"]
             THEN "Buy"
             ELSE IF /\ cur["Close"] < cur["BB_Middle"]
                     /\ cur["MACD"] < cur["MACD_Signal"]
                     /\ prev["MACD"] > prev["MACD_Signal"]
                  THEN "Sell"
                  ELSE ""
BbMacdLabel(t, i) ==
    LET curr_close == t[i]["Close"]
        curr_bb_middle == t[i]["BB_Middle"]
        curr_macd == t[i]["MACD"]
        curr_macd_signal == t[i]["MACD_Signal"]
        macd_2days_ago == t[i - 2]["MACD"]
        macd_signal_2days_ago == t[i - 2]["MACD_Signal"]
    IN  IF \/ isna(curr_close) \/ isna(curr_bb_middle)
           \/ isna(curr_macd) \/ isna(curr_macd_signal)
           \/ isna(macd_2days_ago) \/ isna(macd_signal_2days_ago)
        THEN ""
        ELSE LET price_above_20sma == curr_close > curr_bb_middle
                 price_below_20sma == curr_close < curr_bb_middle
                 macd_bullish_today == curr_macd > curr_macd_signal
                 macd_bearish_2days_ago == macd_2days_ago < macd_signal_2days_ago
                 macd_bearish_today == curr_macd < curr_macd_signal
                 macd_bullish_2days_ago == macd_2days_ago > macd_signal_2days_ago
                 macd_bullish_crossover == macd_bullish_today /\ macd_bearish_2days_ago
                 macd_bearish_crossover == macd_bearish_today /\ macd_bullish_2days_ago
             IN  IF price_above_20sma /\ macd_bullish_crossover
                 THEN "Buy"
                 ELSE IF price_below_20sma /\ macd_bearish_crossover
                      THEN "Sell"
                      ELSE ""

calculate_trading_signals_BB_MACD(t, cols) ==
    IF MissingColumns(BbMacdRequired, cols) # {}
    THEN Returned(EmptyColumn(t))
    ELSE IF ~(BbMacdRequired \subseteq cols)
         THEN KeyError
         ELSE IF Len(t) < 3
              THEN Returned(EmptyColumn(t))
              ELSE Returned([i \in 1..Len(t) |->
                        IF i >= 3 THEN BbMacdLabel(t, i) ELSE ""])



\* ----- the tables the classifiers are applied to --------------------------
Row(macd, sig, rsiS, rsiL, rciS, rciL, cl, bb) ==
    [c \in AllCols |->
        CASE c = "MACD" -> macd
          [] c = "MACD_Signal" -> sig
          [] c = rsi_short_col -> rsiS
          [] c = rsi_long_col -> rsiL
          [] c = rci_short_column -> rciS
          [] c = rci_long_column -> rciL
          [] c = "Close" -> cl
          [] OTHER -> bb]

\* a warm-up row: every indicator still undefined
BlankRow == Row(NaN, NaN, NaN, NaN, NaN, NaN, NaN, NaN)

\* <<MACD, MACD_Signal>> of one row: the signal line needs more history than
\* MACD, so MACD alone may be defined
MacdPairs == {<<NaN, NaN>>, <<1, NaN>>, <<1, 2>>, <<2, 1>>, <<1, 1>>}
RsiShortVals == {NaN, 30, 50, 70}
RsiLongVals == {NaN, 39, 40, 41, 59, 60, 61}
RciLongVals == {-80, 0, 80}
RciShortVals == {NaN, -50, 0, 50}
\* <<Close, BB_Middle>> of one row
ClosePairs == {<<NaN, NaN>>, <<8, NaN>>, <<8, 12>>, <<12, 8>>, <<8, 8>>}

\* tables that exercise MACD+RSI: the newest row carries the indicators
RsiTable(n, m, rs, rl) ==
    [i \in 1..n |-> IF i < n THEN BlankRow
                    ELSE Row(m[1], m[2], rs, rl, NaN, NaN, NaN, NaN)]

\* tables that exercise MACD+RCI.  calculate_rci leaves RCI_long NaN exactly
\* on the rows i < RCI_LONG_PERIOD - 1 and defined on every later row, so a
\* table is either short (RCI_long NaN throughout) or RCI_LONG_PERIOD - 1
\* warm-up rows followed by rows with RCI_long defined, up to MaxBars of
\* them, so that RCI_long can cross a threshold before the five bars a label
\* looks back on; the newest two rows carry MACD, MACD_Signal and RCI_short
ShortRciTable(n, m, rs) ==
    [i \in 1..n |-> IF i < n THEN BlankRow
                    ELSE Row(m[1], m[2], NaN, NaN, rs, NaN, NaN, NaN)]
RciTable(col, m, rs) ==
    LET w == RCI_LONG_PERIOD - 1
        n == w + Len(col)
    IN  [i \in 1..n |->
            IF i <= w THEN BlankRow
            ELSE IF i < n - 1 THEN Row(NaN, NaN, NaN, NaN, NaN, col[i - w], NaN, NaN)
            ELSE Row(m[1], m[2], NaN, NaN, rs, col[i - w], NaN, NaN)]

\* tables that exercise BB+MACD: MACD and MACD_Signal on the newest three
\* rows, Close and BB_Middle on the newest
BbTable(n, m0, m1, m2, cp) ==
    [i \in 1..n |->
        IF i = n THEN Row(m0[1], m0[2], NaN, NaN, NaN, NaN, cp[1], cp[2])
        ELSE IF i = n - 1 THEN Row(m1[1], m1[2], NaN, NaN, NaN, NaN, NaN, NaN)
        ELSE IF i = n - 2 THEN Row(m2[1], m2[2], NaN, NaN, NaN, NaN, NaN, NaN)
        ELSE BlankRow]

\* a table on which every rule fires Buy on its newest row when all columns
\* are there: used with columns removed
FiringTable ==
    [i \in 1..5 |->
        IF i = 5 THEN Row(2, 1, 50, 40, 50, 0, 12, 8)
        ELSE Row(1, 2, 50, 40, 0, -80, 8, 12)]

NotRun == Returned(<<>>)

InitTable ==
    \/ \E n \in 1..MaxBars, m \in MacdPairs, rs \in RsiShortVals, rl \in RsiLongVals :
          df = RsiTable(n, m, rs, rl) /\ columns = AllCols
    \/ \E n \in 1..MaxBars, m \in MacdPairs, rs \in RciShortVals :
          df = ShortRciTable(n, m, rs) /\ columns = AllCols
    \/ \E n \in 1..MaxBars : \E col \in [1..n -> RciLongVals],
          m \in MacdPairs, rs \in RciShortVals :
          df = RciTable(col, m, rs) /\ columns = AllCols
    \/ \E n \in 1..MaxBars, m0 \in MacdPairs, m1 \in MacdPairs, m2 \in MacdPairs,
          cp \in ClosePairs :
          df = BbTable(n, m0, m1, m2, cp) /\ columns = AllCols
    \/ df = FiringTable /\ columns \in SUBSET AllCols

(***************************************************************************)
(* Each component is exercised on its own while the others are idle.       *)
(***************************************************************************)
IdleSig ==
    df = <<>> /\ columns = {} /\ signals = [r \in Rules |-> NotRun] /\ pcSig = "idle"
IdleRci ==
    close = <<>> /\ period = 0 /\ rci = <<>> /\ rciPos = 0 /\ price_ranks = <<>>
IdleBatch ==
    /\ charts_only = FALSE /\ company_list = <<>> /\ fetch_log = <<>>
    /\ tickers = <<>>
    /\ yf = <<>> /\ price_csv = <<>>
    /\ stock_data = <<>> /\ results = <<>> /\ signal_csv = <<>> /\ latest_csv = <<>>
    /\ all_latest_signals = <<>> /\ snapshot = <<>> /\ extract_success = "unset"
    /\ pos = 0 /\ pcMain = "idle"
    /\ strong_buying_trend = <<>> /\ strong_selling_trend = <<>> /\ push_mark = <<>>
    /\ bb_macd_csv = <<>> /\ sanyaku_csv = <<>>
IdleIch ==
    ich = <<>> /\ agree = 0 /\ pcIch = "idle"
IdleBreak ==
    csv_files = <<>> /\ Range_Brake = <<>> /\ pcBreak = "idle"
IdleWick ==
    latest_signal = <<>> /\ result_csv = <<>> /\ pcExtract = "idle"
IdleCross ==
    /\ ichimoku_cross = <<>> /\ cross_log = <<>>
    /\ blocked = {} /\ ichimoku_results = <<>>
IdleRun ==
    /\ result_files = <<>> /\ previous_files = <<>>
    /\ consecutive_tickers = <<>> /\ display_names = <<>> /\ run = 0
IdleUpload ==
    /\ attempt = 0 /\ responses = <<>> /\ sleeps = <<>>
    /\ upload_result = "unset" /\ pcUpload = "idle"
IdleExt == IdleBreak /\ IdleWick /\ IdleCross /\ IdleRun /\ IdleUpload

InitSig ==
    /\ IdleRci /\ IdleBatch /\ IdleIch /\ IdleExt
    /\ InitTable
    /\ signals = [r \in Rules |-> NotRun]
    /\ pcSig = "macd_rsi"

\* calculate_all_indicators: the three classifier calls, in the source's order;
\* an exception leaves the function
Classify(rule, res, next) ==
    /\ signals' = [signals EXCEPT ![rule] = res]
    /\ columns' = IF res.raised THEN columns ELSE columns \cup {rule}
    /\ pcSig' = IF res.raised THEN "raised" ELSE next
    /\ UNCHANGED <<df, rciVars, batchVars, ichVars, extVars>>

CallMacdRsi ==
    /\ pcSig = "macd_rsi"
    /\ Classify("MACD-RSI", calculate_trading_signals_MACD_RSI(df, columns), "macd_rci")

CallMacdRci ==
    /\ pcSig = "macd_rci"
    /\ Classify("MACD-RCI", calculate_trading_signals_MACD_RCI(df, columns), "bb_macd")

CallBbMacd ==
    /\ pcSig = "bb_macd"
    /\ Classify("BB-MACD", calculate_trading_signals_BB_MACD(df, columns), "done")


(***************************************************************************)
(* RCI (Rank Correlation Index).  Arrays are 1-based here: position k is   *)
(* numpy index k - 1.                                                      *)
(***************************************************************************)
\* np.argsort(x): an index order that sorts x ascending.  The default sort
\* kind is not stable, so equal elements may come in either order: every
\* sorting order is a possible result.
argsort(x) ==
    {o \in [1..Len(x) -> 1..Len(x)] :
        /\ \A a, b \in 1..Len(x) : a # b => o[a] # o[b]
        /\ \A a \in 1..(Len(x) - 1) : x[o[a]] <= x[o[a + 1]]}

\* np.argsort(o) of an index order o: the 0-based place of each index in o
ranks_of(o) == [j \in 1..Len(o) |-> (CHOOSE k \in 1..Len(o) : o[k] = j) - 1]

\* price_window = close[i-period+1:i+1], for the 1-based position last = i + 1
price_window(c, per, last) == SubSeq(c, last - per + 1, last)

\* time_ranks = np.arange(1, period + 1)
time_ranks(per) == [k \in 1..per |-> k]

\* price_ranks = period - np.argsort(np.argsort(-price_window)), given the
\* order o the inner argsort returned
PriceRanksOneBased(per, o) == [j \in 1..per |-> per + 1 - ranks_of(o)[j]]
PriceRanks(per, o) == [j \in 1..per |-> per - ranks_of(o)[j]]

RECURSIVE SumSq(_, _, _)
\* np.sum((a - b) ** 2) over the first n entries
SumSq(a, b, n) ==
    IF n = 0 THEN 0 ELSE (a[n] - b[n]) * (a[n] - b[n]) + SumSq(a, b, n - 1)

\* rci_value = (1 - 6 * d_squared / (period * (period**2 - 1))) * 100, kept
\* as the exact fraction num / den
RciValue(per, ranks) ==
    LET d_squared == SumSq(time_ranks(per), ranks, per)
        den == per * (per * per - 1)
    IN  [num |-> 100 * (den - 6 * d_squared), den |-> den]

\* np.nan among exact fractions: 0/0
RciNaN == [num |-> 0, den |-> 0]
RciIsNaN(v) == v.den = 0

Negated(w) == [k \in 1..Len(w) |-> 0 - w[k]]

InitRci ==
    /\ IdleSig /\ IdleBatch /\ IdleIch /\ IdleExt
    /\ \E n \in 1..MaxRciBars : close \in [1..n -> 1..MaxPrice]
    /\ period \in 2..MaxRciPeriod
    /\ rci = <<>>
    /\ rciPos = 0
    /\ price_ranks = <<>>

\* one pass of `for i in range(data_length)`, for i = rciPos: the entry stays
\* NaN while i < period - 1, else compute_rci(period, i)
RciStep ==
    /\ rciPos < Len(close)
    /\ rciPos' = rciPos + 1
    /\ IF rciPos < period - 1
       THEN /\ rci' = Append(rci, RciNaN)
            /\ UNCHANGED price_ranks
       ELSE \E o \in argsort(Negated(price_window(close, period, rciPos + 1))) :
                /\ price_ranks' = PriceRanks(period, o)
                /\ rci' = Append(rci, RciValue(period, price_ranks'))
    /\ UNCHANGED <<close, period, sigVars, batchVars, ichVars, extVars>>


(***************************************************************************)
(* The batch run: main() -> fetch_stock_data -> calculate_signals ->       *)
(* extraction.  A price table is carried as its Close column; of the       *)
(* indicator columns the moving averages are kept, and one text column.    *)
(***************************************************************************)
MA_PERIODS == <<5, 25, 75>>

\* f'MA{period}'
MAName(p) == CASE p = 5 -> "MA5" [] p = 25 -> "MA25" [] p = 75 -> "MA75"

RECURSIVE SumRange(_, _, _)
SumRange(c, lo, hi) == IF lo > hi THEN 0 ELSE c[lo] + SumRange(c, lo + 1, hi)

\* talib.SMA(close, timeperiod)[i - 1]: undefined on the first timeperiod - 1
\* bars, then the mean of the trailing window
SMA(c, timeperiod, i) ==
    IF i < timeperiod THEN NaN ELSE SumRange(c, i - timeperiod + 1, i) \div timeperiod

\* files
Absent == [kind |-> "absent"]
\* a price file with the closes c and the volumes v.  A bar that closes at or
\* above the close before it ends in the upper part of its range, a bar that
\* closes lower in the lower part.
rising_bar(c, i) == i = 1 \/ c[i] >= c[i - 1]
PriceFile(c, v) ==
    [kind |-> "frame",
     High |-> [i \in DOMAIN c |-> c[i] + (IF rising_bar(c, i) THEN 300 ELSE 900)],
     Low |-> [i \in DOMAIN c |-> c[i] - (IF rising_bar(c, i) THEN 900 ELSE 300)],
     Close |-> c, Volume |-> v]
Frame(c) == PriceFile(c, [i \in DOMAIN c |-> FlatVolume])
Table(rows) == [kind |-> "table", rows |-> rows]

(***************************************************************************)
(* calculate_ichimoku.  Arrays are functions on 0..data_length-1, as in    *)
(* the source.  The price columns hold no NaN here (process_data_for_ticker*)
(* forward- and back-fills them first).                                    *)
(***************************************************************************)
tenkan_period == ICHIMOKU_TENKAN_PERIOD
kijun_period == ICHIMOKU_KIJUN_PERIOD
senkou_span_b_period == ICHIMOKU_SENKOU_SPAN_B_PERIOD
displacement == ICHIMOKU_DISPLACEMENT

\* np.full(data_length, np.nan)
np_full(n) == [i \in 0..(n - 1) |-> NaN]

RECURSIVE np_max(_, _, _)
\* np.max(a[lo:hi + 1])
np_max(a, lo, hi) ==
    IF lo = hi THEN a[lo]
    ELSE LET m == np_max(a, lo + 1, hi) IN IF a[lo] > m THEN a[lo] ELSE m

RECURSIVE np_min(_, _, _)
\* np.min(a[lo:hi + 1])
np_min(a, lo, hi) ==
    IF lo = hi THEN a[lo]
    ELSE LET m == np_min(a, lo + 1, hi) IN IF a[lo] < m THEN a[lo] ELSE m

\* (x + y) / 2 on floats; the prices are multiples of 4, so it is exact
Mid(x, y) == IF isna(x) \/ isna(y) THEN NaN ELSE (x + y) \div 2

\* (period_high + period_low) / 2 over the window of `per` bars ending at i
PeriodMid(r, per, i) ==
    Mid(np_max(r.high_values, i - per + 1, i), np_min(r.low_values, i - per + 1, i))

\* the indices the slices [i - per + 1:i + 1] read, i in range(per - 1, n)
SliceIndices(per, n) == UNION {(i - per + 1)..i : i \in (per - 1)..(n - 1)}

\* lines 612-615 and 624-627
LinePass(r, per) ==
    [i \in 0..(r.data_length - 1) |->
        IF i >= per - 1 THEN PeriodMid(r, per, i) ELSE NaN]

\* the guard left out: every computed value is stored
StoreAlways(i, data_length) == TRUE

\* `if i + displacement < data_length:`
StoreGuard(i, data_length) == i + displacement < data_length

\* Senkou A taken from the lines at the target bar instead of bar i
SenkouAValueAtTarget(r, i) ==
    Mid(r.tenkan_sen[i + displacement], r.kijun_sen[i + displacement])

\* (tenkan_sen[i] + kijun_sen[i]) / 2
SenkouAValue(r, i) == Mid(r.tenkan_sen[i], r.kijun_sen[i])

\* (period_high + period_low) / 2 of the Senkou B window ending at bar i
SenkouBValue(r, i) == PeriodMid(r, senkou_span_b_period, i)

\* a store loop `for i in range(first, data_length)` writing at i + shift:
\* the bars whose value is stored, and whether a write fell outside the array
\* (numpy raises IndexError there, after the writes made so far)
Stored(first, n) == {i \in first..(n - 1) : StoreGuard(i, n)}
Overrun(first, n) == \E i \in Stored(first, n) : i + displacement > n - 1

SenkouPass(r, first, column) ==
    LET n == r.data_length
        bars == Stored(first, n)
        values == [t \in 0..(n - 1) |->
                      IF (t - displacement) \in bars
                      THEN IF column = "Ichimoku_SenkouA"
                           THEN SenkouAValue(r, t - displacement)
                           ELSE SenkouBValue(r, t - displacement)
                      ELSE NaN]
        used == bars \cup {i + displacement : i \in bars}
                     \cup (IF column = "Ichimoku_SenkouA" THEN {}
                           ELSE SliceIndices(senkou_span_b_period, n))
    IN  IF column = "Ichimoku_SenkouA"
        THEN [r EXCEPT !.senkou_span_a = values, !.touched = @ \cup used,
                       !.raised = Overrun(first, n)]
        ELSE [r EXCEPT !.senkou_span_b = values, !.touched = @ \cup used,
                       !.raised = Overrun(first, n)]

\* lines 663-667
ChikouPass(r) ==
    LET n == r.data_length
    IN  [r EXCEPT !.chikou_span =
                      [t \in 0..(n - 1) |->
                          IF t + displacement <= n - 1
                          THEN r.close_values[t + displacement] ELSE NaN],
                  !.touched = @ \cup UNION {{i, i - displacement} :
                                               i \in displacement..(n - 1)}]

\* a price series of n bars: a slow zigzag, and from bar `from` on a shifted
\* copy of it.  The second series of a pair agrees with the first up to a bar,
\* differs after it, and may have one bar more.
BasePrice(i) == 400 + 4 * ((i * 3) % 7) + 8 * (i \div 10)
Series(n, from) ==
    [high_values |-> [i \in 0..(n - 1) |-> BasePrice(i) + 8 + (IF i >= from THEN 40 ELSE 0)],
     low_values |-> [i \in 0..(n - 1) |-> BasePrice(i) - 8 - (IF i >= from THEN 40 ELSE 0)],
     close_values |-> [i \in 0..(n - 1) |-> BasePrice(i) + (IF i >= from THEN 20 ELSE 0)]]

\* Ichimoku_JudgeDate = '': no date.  A date is carried as the number of its bar.
NoDate == 0 - 1

\* calculate_ichimoku, lines 600-605, and the initial value of every column
\* it adds
Start(series, n) ==
    [high_values |-> series.high_values, low_values |-> series.low_values,
     close_values |-> series.close_values, data_length |-> n,
     tenkan_sen |-> np_full(n), kijun_sen |-> np_full(n),
     senkou_span_a |-> np_full(n), senkou_span_b |-> np_full(n),
     chikou_span |-> np_full(n), touched |-> {}, raised |-> FALSE,
     above_cloud |-> [i \in 0..(n - 1) |-> FALSE],
     below_cloud |-> [i \in 0..(n - 1) |-> FALSE],
     in_cloud |-> [i \in 0..(n - 1) |-> FALSE],
     chikou_above_price |-> [i \in 0..(n - 1) |-> FALSE],
     chikou_below_price |-> [i \in 0..(n - 1) |-> FALSE],
     tenkan_above_kijun |-> [i \in 0..(n - 1) |-> FALSE],
     tenkan_below_kijun |-> [i \in 0..(n - 1) |-> FALSE],
     SanYaku_Kouten |-> [i \in 0..(n - 1) |-> FALSE],
     SanYaku_Anten |-> [i \in 0..(n - 1) |-> FALSE],
     Ichimoku_SanYaku |-> [i \in 0..(n - 1) |-> ""],
     Ichimoku_JudgeDate |-> [i \in 0..(n - 1) |-> NoDate],
     listed |-> {}]

InitIchimoku ==
    /\ IdleSig /\ IdleRci /\ IdleBatch /\ IdleExt
    /\ \E n \in 0..MaxIchLen, more \in 0..1 :
        /\ agree \in -1..(n - 1)
        /\ ich = <<Start(Series(n, n), n),
                   Start(Series(n + more, agree + 1), n + more)>>
    /\ pcIch = "tenkan"

\* one pass of calculate_ichimoku over both series
Pass(runs, next) ==
    /\ ich' = runs
    /\ pcIch' = IF \E k \in 1..2 : runs[k].raised THEN "raised" ELSE next
    /\ UNCHANGED <<agree, sigVars, rciVars, batchVars, extVars>>

TenkanOf(r) ==
    [r EXCEPT !.tenkan_sen = LinePass(r, tenkan_period),
              !.touched = @ \cup SliceIndices(tenkan_period, r.data_length)]
KijunOf(r) ==
    [r EXCEPT !.kijun_sen = LinePass(r, kijun_period),
              !.touched = @ \cup SliceIndices(kijun_period, r.data_length)]
SenkouAOf(r) == SenkouPass(r, tenkan_period - 1, "Ichimoku_SenkouA")
SenkouBOf(r) == SenkouPass(r, senkou_span_b_period - 1, "Ichimoku_SenkouB")

TenkanSen ==
    /\ pcIch = "tenkan"
    /\ Pass([k \in 1..2 |-> TenkanOf(ich[k])], "kijun")
KijunSen ==
    /\ pcIch = "kijun"
    /\ Pass([k \in 1..2 |-> KijunOf(ich[k])], "senkou_a")
SenkouSpanA ==
    /\ pcIch = "senkou_a"
    /\ Pass([k \in 1..2 |-> SenkouAOf(ich[k])], "senkou_b")
SenkouSpanB ==
    /\ pcIch = "senkou_b"
    /\ Pass([k \in 1..2 |-> SenkouBOf(ich[k])], "chikou")
ChikouSpan ==
    /\ pcIch = "chikou"
    /\ Pass([k \in 1..2 |-> ChikouPass(ich[k])], "cloud")

\* the cloud top taken to be Senkou Span A
max_cloud_span_a(a, b) == a

\* max(senkou_span_a[i], senkou_span_b[i]) and the min
max_cloud(a, b) == IF a > b THEN a ELSE b
min_cloud(a, b) == IF a < b THEN a ELSE b

\* lines 677-689, for one bar: which of the three flags is set
CloudPosition(c, a, b) ==
    IF ~(isna(a) \/ isna(b))
    THEN IF c > max_cloud(a, b) THEN "above"
         ELSE IF c < min_cloud(a, b) THEN "below" ELSE "in"
    ELSE "none"

\* lines 673-689
CloudOf(r) ==
    LET where == [i \in 0..(r.data_length - 1) |->
                     CloudPosition(r.close_values[i], r.senkou_span_a[i], r.senkou_span_b[i])]
    IN  [r EXCEPT !.above_cloud = [i \in DOMAIN where |-> where[i] = "above"],
                  !.below_cloud = [i \in DOMAIN where |-> where[i] = "below"],
                  !.in_cloud = [i \in DOMAIN where |-> where[i] = "in"]]

CloudJudge ==
    /\ pcIch = "cloud"
    /\ Pass([k \in 1..2 |-> CloudOf(ich[k])], "judge")

\* lines 704-767: Chikou against the price of its own bar (flag stored
\* displacement bars later), Tenkan against Kijun, and the two three-phase
\* base conditions
JudgeOf(r) ==
    LET n == r.data_length
        chikou_above == [t \in 0..(n - 1) |->
                            /\ t - displacement >= 0
                            /\ ~isna(r.chikou_span[t - displacement])
                            /\ r.chikou_span[t - displacement] > r.close_values[t - displacement]]
        chikou_below == [t \in 0..(n - 1) |->
                            /\ t - displacement >= 0
                            /\ ~isna(r.chikou_span[t - displacement])
                            /\ r.chikou_span[t - displacement] < r.close_values[t - displacement]]
        tenkan_above == [i \in 0..(n - 1) |-> Gt(r.tenkan_sen[i], r.kijun_sen[i])]
        tenkan_below == [i \in 0..(n - 1) |-> Lt(r.tenkan_sen[i], r.kijun_sen[i])]
    IN  [r EXCEPT !.chikou_above_price = chikou_above,
                  !.chikou_below_price = chikou_below,
                  !.tenkan_above_kijun = tenkan_above,
                  !.tenkan_below_kijun = tenkan_below,
                  !.SanYaku_Kouten = [i \in 0..(n - 1) |->
                      r.above_cloud[i] /\ chikou_above[i] /\ tenkan_above[i]],
                  !.SanYaku_Anten = [i \in 0..(n - 1) |->
                      r.below_cloud[i] /\ chikou_below[i] /\ tenkan_below[i]]]

Judge ==
    /\ pcIch = "judge"
    /\ Pass([k \in 1..2 |-> JudgeOf(ich[k])], "sanyaku")

\* tenkan_uenuke / tenkan_shitanuke: Tenkan crossed Kijun between bar i - 1
\* and bar i
tenkan_uenuke(r, i) ==
    r.tenkan_sen[i - 1] <= r.kijun_sen[i - 1] /\ r.tenkan_sen[i] > r.kijun_sen[i]
tenkan_shitanuke(r, i) ==
    r.tenkan_sen[i - 1] >= r.kijun_sen[i - 1] /\ r.tenkan_sen[i] < r.kijun_sen[i]

\* lines 779-781: the bar is skipped
LinesUndefined(r, i) ==
    \/ isna(r.tenkan_sen[i - 1]) \/ isna(r.kijun_sen[i - 1])
    \/ isna(r.tenkan_sen[i]) \/ isna(r.kijun_sen[i])

\* src/technical_indicators.py, lines 406-439: the three-phase label of bar i
\* in the root revision, written only when the matching cross lies between
\* bar i - 1 and bar i and the base condition holds on bar i
SanYakuLabelRoot(r, i) ==
    IF i < 1 \/ LinesUndefined(r, i) THEN ""
    ELSE IF r.SanYaku_Kouten[i] /\ tenkan_uenuke(r, i) THEN "SanYaku_Kouten"
    ELSE IF r.SanYaku_Anten[i] /\ tenkan_shitanuke(r, i) THEN "SanYaku_Anten"
    ELSE ""

\* src/StockSignal/technical_indicators.py, lines 776-813: the three-phase
\* label of bar i in the StockSignal revision, written whenever the base
\* condition holds on bar i (the label is Japanese text in the source and is
\* carried here under the name of its base condition)
SanYakuLabel(r, i) ==
    IF i < 1 \/ LinesUndefined(r, i) THEN ""
    ELSE IF r.SanYaku_Kouten[i] THEN "SanYaku_Kouten"
    ELSE IF r.SanYaku_Anten[i] THEN "SanYaku_Anten"
    ELSE ""

\* lines 797-817: the date of bar i, recorded when the labelled bar is also
\* the bar of the matching cross
JudgeDate(r, i) ==
    IF i < 1 \/ LinesUndefined(r, i) THEN NoDate
    ELSE IF r.SanYaku_Kouten[i] THEN (IF tenkan_uenuke(r, i) THEN i ELSE NoDate)
    ELSE IF r.SanYaku_Anten[i] THEN (IF tenkan_shitanuke(r, i) THEN i ELSE NoDate)
    ELSE NoDate

SanYakuOf(r) ==
    [r EXCEPT !.Ichimoku_SanYaku = [i \in 0..(r.data_length - 1) |-> SanYakuLabel(r, i)],
              !.Ichimoku_JudgeDate = [i \in 0..(r.data_length - 1) |-> JudgeDate(r, i)]]

\* the last pass of calculate_ichimoku in the StockSignal revision
SanYaku ==
    /\ pcIch = "sanyaku"
    /\ Pass([k \in 1..2 |-> SanYakuOf(ich[k])], "done")

\* the root revision has no Ichimoku_JudgeDate column: the field keeps NoDate
SanYakuRootOf(r) ==
    [r EXCEPT !.Ichimoku_SanYaku = [i \in 0..(r.data_length - 1) |-> SanYakuLabelRoot(r, i)]]

\* the last pass of calculate_ichimoku in the root revision, whose
\* extract_signals.py has no three-phase extraction
SanYakuRoot ==
    /\ pcIch = "sanyaku"
    /\ Pass([k \in 1..2 |-> SanYakuRootOf(ich[k])], "done_root")

\* the cloud judgement applied to spans given directly: per bar both spans
\* undefined, only Span A defined, or both defined
SpanValues == {100, 104}
CloseValues == {96, 100, 102, 104, 108}
SpanPairs ==
    {<<NaN, NaN>>} \cup {<<a, NaN>> : a \in SpanValues} \cup (SpanValues \X SpanValues)

InitCloud ==
    /\ IdleSig /\ IdleRci /\ IdleBatch /\ IdleExt
    /\ \E n \in 1..MaxCloudBars :
        \E c \in [0..(n - 1) -> CloseValues], sp \in [0..(n - 1) -> SpanPairs] :
            LET r == [Start([high_values |-> c, low_values |-> c, close_values |-> c], n)
                        EXCEPT !.senkou_span_a = [i \in 0..(n - 1) |-> sp[i][1]],
                               !.senkou_span_b = [i \in 0..(n - 1) |-> sp[i][2]]]
            IN  /\ ich = <<r, r>>
                /\ agree = n - 1
    /\ pcIch = "cloud"

\* a price series that falls by `fall` a bar until bar `turn` and then rises
\* by `rise` a bar, or its mirror image (dir = -1)
Level(i, turn, fall, rise, dir) ==
    2000 + dir * (IF i <= turn THEN 0 - fall * i
                  ELSE rise * (i - turn) - fall * turn)
Reversal(n, turn, fall, rise, dir) ==
    [high_values |-> [i \in 0..(n - 1) |-> Level(i, turn, fall, rise, dir) + 8],
     low_values |-> [i \in 0..(n - 1) |-> Level(i, turn, fall, rise, dir) - 8],
     close_values |-> [i \in 0..(n - 1) |-> Level(i, turn, fall, rise, dir) + 4 * dir]]

\* the two instruments of a run: a bullish reversal and its bearish mirror
InitSanyaku ==
    /\ IdleSig /\ IdleRci /\ IdleBatch /\ IdleExt
    /\ \E n \in (MaxIchLen - 2)..MaxIchLen, turn \in 40..(MaxIchLen - 2),
          fall \in {0, 4}, rise \in {4, 16, 40} :
        /\ turn <= n - 2
        /\ ich = <<Start(Reversal(n, turn, fall, rise, 1), n),
                   Start(Reversal(n, turn, fall, rise, -1), n)>>
    /\ agree = -1
    /\ pcIch = "tenkan"

\* extract_sanyaku_signals, lines 1041 and 1080: the buckets that list the
\* instrument, from the latest row of the snapshot
SanyakuBuckets(r) ==
    LET last == r.data_length - 1
    IN  (IF r.SanYaku_Kouten[last] THEN {"SanYaku_Kouten"} ELSE {})
            \cup (IF r.SanYaku_Anten[last] THEN {"SanYaku_Anten"} ELSE {})

ExtractSanyaku ==
    /\ pcIch = "done"
    /\ ich' = [k \in 1..2 |-> [ich[k] EXCEPT !.listed = SanyakuBuckets(ich[k])]]
    /\ pcIch' = "extracted"
    /\ UNCHANGED <<agree, sigVars, rciVars, batchVars, extVars>>

(***************************************************************************)
(* extract_ichimoku_cross_signals: the last two rows of each instrument's  *)
(* signal file decide its bucket.                                          *)
(***************************************************************************)
CrossTurnSpan == 30

\* lengths of the signal files: one row, too few rows for the Kijun line,
\* the full history
CrossLengths == {1, ICHIMOKU_KIJUN_PERIOD, MaxIchLen}

CrossFiles ==
    {"ichimoku_GC_under_cloud.csv", "ichimoku_GC_upper_cloud.csv",
     "ichimoku_DC_upper_cloud.csv", "ichimoku_DC_under_cloud.csv"}

\* golden_cross / dead_cross on the last two rows
golden_cross(r) ==
    LET last == r.data_length - 1
    IN  r.tenkan_sen[last - 1] <= r.kijun_sen[last - 1] /\ r.tenkan_sen[last] > r.kijun_sen[last]
dead_cross(r) ==
    LET last == r.data_length - 1
    IN  r.tenkan_sen[last - 1] >= r.kijun_sen[last - 1] /\ r.tenkan_sen[last] < r.kijun_sen[last]

\* the chain of tests with the Chikou conditions left out
cross_files_no_chikou(r) ==
    LET last == r.data_length - 1
    IN  IF r.data_length < 2 THEN {}
        ELSE IF LinesUndefined(r, last) THEN {}
        ELSE IF golden_cross(r) /\ r.below_cloud[last] THEN {"ichimoku_GC_under_cloud.csv"}
        ELSE IF golden_cross(r) /\ r.above_cloud[last] THEN {"ichimoku_GC_upper_cloud.csv"}
        ELSE IF dead_cross(r) /\ r.above_cloud[last] THEN {"ichimoku_DC_upper_cloud.csv"}
        ELSE IF dead_cross(r) /\ r.below_cloud[last] THEN {"ichimoku_DC_under_cloud.csv"}
        ELSE {}

\* the body of the loop over all_tickers: the files the instrument is
\* appended to.  Fewer than two rows, or an undefined Tenkan or Kijun on
\* either row, leave it out.
cross_files(r) ==
    LET last == r.data_length - 1
    IN  IF r.data_length < 2 THEN {}
        ELSE IF LinesUndefined(r, last) THEN {}
        ELSE IF golden_cross(r) /\ r.below_cloud[last] /\ r.chikou_above_price[last]
             THEN {"ichimoku_GC_under_cloud.csv"}
        ELSE IF golden_cross(r) /\ r.above_cloud[last] /\ r.chikou_above_price[last]
             THEN {"ichimoku_GC_upper_cloud.csv"}
        ELSE IF dead_cross(r) /\ r.above_cloud[last] /\ r.chikou_below_price[last]
             THEN {"ichimoku_DC_upper_cloud.csv"}
        ELSE IF dead_cross(r) /\ r.below_cloud[last] /\ r.chikou_below_price[last]
             THEN {"ichimoku_DC_under_cloud.csv"}
        ELSE {}

\* the tickers of runs, in order, that go to the file
CrossRows(runs, file) ==
    SelectSeq([k \in 1..Len(runs) |-> k], LAMBDA k : file \in cross_files(runs[k]))

\* the records the loop leaves in the log for one instrument: a warning on
\* fewer than two rows, nothing on an undefined Tenkan or Kijun, the bucket
\* of a classified instrument.  For a cross the Chikou flag rejects the loop
\* calls logger.debug, which the logger drops: setup_logger sets the logger
\* and its handlers to INFO.
cross_records(k, r) ==
    LET last == r.data_length - 1
    IN  IF r.data_length < 2
        THEN <<[level |-> "warning", ticker |-> k, event |-> "not enough rows"]>>
        ELSE IF LinesUndefined(r, last) THEN <<>>
        ELSE IF cross_files(r) # {}
        THEN <<[level |-> "info", ticker |-> k,
                event |-> CHOOSE file \in cross_files(r) : TRUE]>>
        ELSE <<>>

RECURSIVE cross_log_of(_, _)
cross_log_of(runs, k) ==
    IF k > Len(runs) THEN <<>>
    ELSE cross_records(k, runs[k]) \o cross_log_of(runs, k + 1)

ExtractIchimokuCross ==
    /\ pcIch = "done"
    /\ ichimoku_cross' = [file \in CrossFiles |-> CrossRows(ich, file)]
    /\ cross_log' = cross_log_of(ich, 1)
    /\ pcIch' = "crossed"
    /\ UNCHANGED <<blocked, ichimoku_results>>
    /\ UNCHANGED <<ich, agree, sigVars, rciVars, batchVars, breakVars, wickVars,
                   runVars, uploadVars>>

\* the two instruments of a run: a fall that turns into a rise within the
\* last CrossTurnSpan bars, and its mirror
InitCross ==
    /\ IdleSig /\ IdleRci /\ IdleBatch /\ IdleBreak /\ IdleWick /\ IdleRun /\ IdleUpload
    /\ \E n \in CrossLengths, turn \in (MaxIchLen - CrossTurnSpan)..(MaxIchLen - 2),
          fall \in {0, 4, 8}, rise \in {4, 8, 16, 40} :
        ich = <<Start(Reversal(n, turn, fall, rise, 1), n),
                Start(Reversal(n, turn, fall, rise, -1), n)>>
    /\ agree = -1
    /\ ichimoku_cross = [file \in CrossFiles |-> <<>>]
    /\ cross_log = <<>>
    /\ blocked = {}
    /\ ichimoku_results = <<>>
    /\ pcIch = "tenkan"

(***************************************************************************)
(* identify_range_breakouts.  A signal file is a sequence of rows with     *)
(* Date (a day number), High, Low, Close and Volume, ascending by date.    *)
(***************************************************************************)
RECURSIVE SelectRows(_, _, _)
\* df[df['Date'] >= lo] restricted further to Date < hi
SelectRows(rows, lo, hi) ==
    IF rows = <<>> THEN <<>>
    ELSE (IF rows[1].Date >= lo /\ rows[1].Date < hi THEN <<rows[1]>> ELSE <<>>)
             \o SelectRows(Tail(rows), lo, hi)

\* latest_date = df['Date'].max()
latest_date(rows) == CHOOSE d \in {rows[k].Date : k \in 1..Len(rows)} :
                         \A k \in 1..Len(rows) : rows[k].Date <= d

\* three_month_ago = latest_date - timedelta(days=90)
three_month_ago(rows) == latest_date(rows) - 90

\* three_month_data = df[df['Date'] >= three_month_ago], the latest day
\* included
three_month_data(rows) == SelectRows(rows, three_month_ago(rows), latest_date(rows) + 1)

\* previous_data with the latest day left in
previous_data_with_latest(rows) == three_month_data(rows)

\* previous_data = three_month_data[three_month_data['Date'] < latest_date]
previous_data(rows) == SelectRows(three_month_data(rows), three_month_ago(rows), latest_date(rows))

\* previous_data['High'].max()
HighMax(rows) == CHOOSE h \in {rows[k].High : k \in 1..Len(rows)} :
                     \A k \in 1..Len(rows) : rows[k].High <= h

RECURSIVE VolumeSum(_)
VolumeSum(rows) == IF rows = <<>> THEN 0 ELSE rows[1].Volume + VolumeSum(Tail(rows))

\* condition1: the latest close against the highest high of the days before
breakout_condition1(rows) ==
    IF previous_data(rows) = <<>> THEN FALSE
    ELSE rows[Len(rows)].Close >= HighMax(previous_data(rows))

\* the rows the volume mean is taken over, had it left the latest day out
volume_rows_previous(rows) == previous_data(rows)

\* the rows of volume_ma = three_month_data['Volume'].mean()
volume_rows(rows) == three_month_data(rows)

\* condition2: latest Volume > volume_ma * 1.5, as an exact comparison
breakout_condition2(rows) ==
    LET w == volume_rows(rows)
    IN  w # <<>> /\ 2 * Len(w) * rows[Len(rows)].Volume > 3 * VolumeSum(w)

\* condition3
breakout_condition3(rows) == rows[Len(rows)].Volume >= 100000

\* condition4: Close > (High + Low) / 2
breakout_condition4(rows) ==
    2 * rows[Len(rows)].Close > rows[Len(rows)].High + rows[Len(rows)].Low

\* one signal file of the loop: skipped when empty or shorter than 90 rows
breakout_stock(ticker, rows) ==
    IF rows = <<>> \/ Len(rows) < 90 THEN <<>>
    ELSE IF /\ breakout_condition1(rows) /\ breakout_condition2(rows)
            /\ breakout_condition3(rows) /\ breakout_condition4(rows)
         THEN <<[Ticker |-> ticker, Close |-> rows[Len(rows)].Close,
                 Previous_High |-> HighMax(previous_data(rows))]>>
         ELSE <<>>

RECURSIVE breakout_stocks(_, _)
\* the loop over csv_files, in the order of the listing
breakout_stocks(listing, files) ==
    IF listing = <<>> THEN <<>>
    ELSE breakout_stock(listing[1], files[listing[1]])
             \o breakout_stocks(Tail(listing), files)

\* os.listdir(technical_dir): the files in any order
Listings(files) ==
    LET n == Len(files)
    IN  {o \in [1..n -> 1..n] : \A i, j \in 1..n : i # j => o[i] # o[j]}

\* identify_range_breakouts: no signal file, no output; otherwise
\* Range_Brake.csv is written, empty when nothing qualifies
IdentifyRangeBreakouts ==
    /\ pcBreak = "start"
    /\ IF csv_files = <<>>
       THEN UNCHANGED Range_Brake
       ELSE \E listing \in Listings(csv_files) :
                Range_Brake' = Table(breakout_stocks(listing, csv_files))
    /\ pcBreak' = "done"
    /\ UNCHANGED <<csv_files, sigVars, rciVars, batchVars, ichVars, wickVars,
                   crossVars, runVars, uploadVars>>

\* a signal file of n rows.  The days before the latest all have High 1000,
\* Low 900, Close 950 and Volume 100000, but for one day with High 1100
\* (spike = 0: none; otherwise the spike-th row).  The latest day comes gap
\* days after the one before it.
BreakoutRows(n, gap, spike, cl, hi, lo, vol) ==
    [i \in 1..n |->
        IF i < n
        THEN [Date |-> i, High |-> IF i = spike THEN 1100 ELSE 1000,
              Low |-> 900, Close |-> 950, Volume |-> 100000]
        ELSE [Date |-> n - 1 + gap, High |-> cl + hi, Low |-> cl - lo,
              Close |-> cl, Volume |-> vol]]

BreakoutLengths == {89, 90, MaxBreakoutRows}

BreakoutFiles ==
    {BreakoutRows(n, gap, spike, cl, hi, lo, vol) :
        n \in BreakoutLengths, gap \in {1, 90, 91}, spike \in {0, 1, 88},
        cl \in {999, 1000, 1001, 1100}, hi \in {0, 50}, lo \in {0, 100},
        vol \in {99999, 150000, 150001, 150800, 150900, 300000}}

BreakoutPairFiles ==
    {BreakoutRows(90, 1, 0, cl, 50, 100, vol) : cl \in {999, 1000}, vol \in {150001, 300000}}

InitBreakout ==
    /\ IdleSig /\ IdleRci /\ IdleBatch /\ IdleIch /\ IdleWick /\ IdleCross /\ IdleRun /\ IdleUpload
    /\ \E n \in 0..MaxTickers :
        csv_files \in [1..n -> IF n = 1 THEN BreakoutFiles ELSE BreakoutPairFiles]
    /\ Range_Brake = Absent
    /\ pcBreak = "start"

(***************************************************************************)
(* result_backup.  A run backs up the previous results, produces the       *)
(* breakout output, and then marks the instruments that                    *)
(* get_consecutive_tickers reports.                                        *)
(***************************************************************************)
MaxRuns == 2

files_to_backup == {"Breakout.csv", "push_mark.csv"}

\* backup_previous_results: each file that exists in Result/ is copied over
\* the one in Result/Previous/
backup_previous_results(result, previous) ==
    [file_name \in files_to_backup |->
        IF result[file_name].kind # "absent" THEN result[file_name]
        ELSE previous[file_name]]

\* set(df['Ticker'].astype(str))
TickerStrings(file) ==
    {ToString(file.rows[k].Ticker) : k \in 1..Len(file.rows)}

\* one category of get_consecutive_tickers: empty unless both files exist
consecutive_of(current, previous) ==
    IF current.kind # "absent" /\ previous.kind # "absent"
    THEN TickerStrings(current) \cap TickerStrings(previous)
    ELSE {}

get_consecutive_tickers(result, previous) ==
    [breakout |-> consecutive_of(result["Breakout.csv"], previous["Breakout.csv"]),
     push_mark |-> consecutive_of(result["push_mark.csv"], previous["push_mark.csv"])]

decorate_company_name(ticker, company_name, consecutive) ==
    IF ToString(ticker) \in consecutive.breakout \cup consecutive.push_mark
    THEN "◎" \o company_name
    ELSE company_name

\* the Company column of the breakout output
CompanyName(ticker) == "Company" \o ToString(ticker)

BackupPreviousResults ==
    /\ pcBreak = "backup"
    /\ previous_files' = backup_previous_results(result_files, previous_files)
    /\ pcBreak' = "start"
    /\ UNCHANGED <<csv_files, Range_Brake, result_files, consecutive_tickers,
                   display_names, run>>
    /\ UNCHANGED <<sigVars, rciVars, batchVars, ichVars, wickVars, crossVars, uploadVars>>

\* the rows of the breakout output get their display names
MarkConsecutive ==
    /\ pcBreak = "done" /\ run >= 1
    /\ LET consecutive == get_consecutive_tickers(result_files, previous_files)
           rows == IF Range_Brake.kind = "table" THEN Range_Brake.rows ELSE <<>>
       IN  /\ consecutive_tickers' = consecutive
           /\ display_names' =
                  [k \in 1..Len(rows) |->
                      decorate_company_name(rows[k].Ticker, CompanyName(rows[k].Ticker),
                                            consecutive)]
    /\ pcBreak' = "marked"
    /\ UNCHANGED <<csv_files, Range_Brake, result_files, previous_files, run>>
    /\ UNCHANGED <<sigVars, rciVars, batchVars, ichVars, wickVars, crossVars, uploadVars>>

\* the next run starts from the same signal files
StartRun ==
    /\ pcBreak = "marked" /\ run < MaxRuns
    /\ run' = run + 1
    /\ pcBreak' = "backup"
    /\ UNCHANGED <<csv_files, Range_Brake, result_files, previous_files,
                   consecutive_tickers, display_names>>
    /\ UNCHANGED <<sigVars, rciVars, batchVars, ichVars, wickVars, crossVars, uploadVars>>

\* a file of Result/ that the runs do not write: absent, or a table naming
\* some of the instruments
LeftFiles ==
    {Absent} \cup {Table(<<[Ticker |-> t]>>) : t \in 1..MaxTickers}

InitRun ==
    /\ IdleSig /\ IdleRci /\ IdleBatch /\ IdleIch /\ IdleWick /\ IdleCross /\ IdleUpload
    /\ \E n \in 0..MaxTickers : csv_files \in [1..n -> BreakoutPairFiles]
    /\ Range_Brake = Absent
    /\ result_files \in [files_to_backup -> LeftFiles]
    /\ previous_files = [file_name \in files_to_backup |-> Absent]
    /\ consecutive_tickers = [breakout |-> {}, push_mark |-> {}]
    /\ display_names = <<>>
    /\ run = 1
    /\ pcBreak = "backup"

(***************************************************************************)
(* extract_signals.  A snapshot row carries the three categorical fields   *)
(* ('' reads back from the CSV as NaN and equals neither 'Buy' nor 'Sell') *)
(* and the latest bar's Close, High and Low.                               *)
(***************************************************************************)
RECURSIVE Filter(_, _, _, _)
\* df[mask]: the rows whose fields cols all equal label and, when side is
\* "above" or "below", whose Close lies on that side of the Midpoint
\* (High + Low) / 2
Filter(rows, cols, label, side) ==
    IF rows = <<>> THEN <<>>
    ELSE LET r == rows[1]
             keep == /\ \A c \in cols : r[c] = label
                     /\ CASE side = "above" -> 2 * r["Close"] > r["High"] + r["Low"]
                          [] side = "below" -> 2 * r["Close"] < r["High"] + r["Low"]
                          [] OTHER -> TRUE
         IN  (IF keep THEN <<[Ticker |-> r["Ticker"], Close |-> r["Close"]]>> ELSE <<>>)
                 \o Filter(Tail(rows), cols, label, side)

\* the files extract_signals of StockSignal/ writes
SignalTables ==
    {"macd_rsi_signal_result_buy.csv", "macd_rsi_signal_result_sell.csv",
     "macd_rci_signal_result_buy.csv", "macd_rci_signal_result_sell.csv",
     "macd_bb_signal_result_buy.csv", "macd_bb_signal_result_sell.csv",
     "macd_rsi_rci_signal_result_buy.csv", "macd_rsi_rci_signal_result_sell.csv"}

\* the categorical fields a table is selected on, and its label
TableColumns(name) ==
    CASE name \in {"macd_rsi_signal_result_buy.csv", "macd_rsi_signal_result_sell.csv"}
            -> {"MACD-RSI"}
      [] name \in {"macd_rci_signal_result_buy.csv", "macd_rci_signal_result_sell.csv"}
            -> {"MACD-RCI"}
      [] name \in {"macd_bb_signal_result_buy.csv", "macd_bb_signal_result_sell.csv"}
            -> {"BB-MACD"}
      [] OTHER -> {"MACD-RSI", "MACD-RCI"}

BuyTables ==
    {"macd_rsi_signal_result_buy.csv", "macd_rci_signal_result_buy.csv",
     "macd_bb_signal_result_buy.csv", "macd_rsi_rci_signal_result_buy.csv"}

TableLabel(name) == IF name \in BuyTables THEN "Buy" ELSE "Sell"

\* StockSignal/extract_signals.py: every table is selected on its label and
\* on the side of the Midpoint
extract_signals(rows) ==
    [name \in SignalTables |->
        Table(Filter(rows, TableColumns(name), TableLabel(name),
                     IF name \in BuyTables THEN "above" ELSE "below"))]

\* extract_signals.py: no BB-MACD tables, and the tables are selected on the
\* label alone
extract_signals_root(rows, before) ==
    [name \in SignalTables |->
        IF TableColumns(name) = {"BB-MACD"} THEN before[name]
        ELSE Table(Filter(rows, TableColumns(name), TableLabel(name), "any"))]

\* StockSignal/main.py calls extract_signals of StockSignal/
ExtractSignalTables ==
    /\ pcExtract = "start"
    /\ result_csv' = IF latest_signal.kind = "table"
                     THEN extract_signals(latest_signal.rows) ELSE result_csv
    /\ pcExtract' = "done"
    /\ UNCHANGED <<latest_signal, sigVars, rciVars, batchVars, ichVars, breakVars,
                   crossVars, runVars, uploadVars>>

\* main.py calls extract_signals of the top directory
ExtractSignalTablesRoot ==
    /\ pcExtract = "start"
    /\ result_csv' = IF latest_signal.kind = "table"
                     THEN extract_signals_root(latest_signal.rows, result_csv)
                     ELSE result_csv
    /\ pcExtract' = "done_root"
    /\ UNCHANGED <<latest_signal, sigVars, rciVars, batchVars, ichVars, breakVars,
                   crossVars, runVars, uploadVars>>

\* the latest bars: Low <= Close <= High
WickBars ==
    {b \in [Close : {98, 100, 101, 102}, High : {100, 102}, Low : {98, 100}] :
        b.Low <= b.Close /\ b.Close <= b.High}

Labels == {"Buy", "Sell", NaNText}

SnapshotRow(ticker, macd_rsi, macd_rci, bb_macd, bar) ==
    [col \in {"Ticker", "MACD-RSI", "MACD-RCI", "BB-MACD", "Close", "High", "Low"} |->
        CASE col = "Ticker" -> ticker
          [] col = "MACD-RSI" -> macd_rsi
          [] col = "MACD-RCI" -> macd_rci
          [] col = "BB-MACD" -> bb_macd
          [] OTHER -> bar[col]]

\* the snapshots: missing, of one instrument, or of more instruments that
\* all carry Buy in every field or all Sell
WickSnapshots ==
    {Absent}
    \cup {Table(<<SnapshotRow(1, l1, l2, l3, bar)>>) :
            l1 \in Labels, l2 \in Labels, l3 \in Labels, bar \in WickBars}
    \cup UNION {{Table([t \in 1..n |-> SnapshotRow(t, l, l, l, bars[t])]) :
                    l \in {"Buy", "Sell"},
                    bars \in [1..n -> {b \in WickBars : b.High = 102 /\ b.Low = 98}]} :
                n \in 2..MaxTickers}

InitWick ==
    /\ IdleSig /\ IdleRci /\ IdleBatch /\ IdleIch /\ IdleBreak /\ IdleCross /\ IdleRun /\ IdleUpload
    /\ latest_signal \in WickSnapshots
    /\ result_csv = [name \in SignalTables |-> Absent]
    /\ pcExtract = "start"

(***************************************************************************)
(* The batch run, continued: calculate_signals and the extractors main()   *)
(* calls after it, in the order of main().                                 *)
(***************************************************************************)
\* calculate_ichimoku on the High, Low and Close columns of a price file:
\* the passes in the order of the function
calculate_ichimoku(file) ==
    LET n == Len(file.Close)
        series == [high_values |-> [i \in 0..(n - 1) |-> file.High[i + 1]],
                   low_values |-> [i \in 0..(n - 1) |-> file.Low[i + 1]],
                   close_values |-> [i \in 0..(n - 1) |-> file.Close[i + 1]]]
    IN  SanYakuOf(JudgeOf(CloudOf(ChikouPass(SenkouBOf(SenkouAOf(KijunOf(TenkanOf(
            Start(series, n)))))))))

\* lines 693-700: the cloud position of bar i in words.  The source writes
\* the words in Japanese (kumo no ue, kumo no shita, kumo no naka); they are
\* carried here in English.
Ichimoku_Cloud_Status(r, i) ==
    IF r.above_cloud[i] THEN "above the cloud"
    ELSE IF r.below_cloud[i] THEN "below the cloud"
    ELSE IF r.in_cloud[i] THEN "in the cloud"
    ELSE ""

\* the columns of a signal file that are kept: the prices, the moving
\* averages and the Ichimoku columns the extractors read.  Date is the index
\* of the file, a day number.
SignalColumns ==
    {"Date", "Ticker", "High", "Low", "Close", "Volume", "MA5", "MA25", "MA75",
     "Ichimoku_Tenkan", "Ichimoku_Kijun", "Ichimoku_SenkouA", "Ichimoku_SenkouB",
     "Ichimoku_Above_Cloud", "Ichimoku_Below_Cloud",
     "Ichimoku_Chikou_Above_Price", "Ichimoku_Chikou_Below_Price",
     "SanYaku_Kouten", "SanYaku_Anten", "Ichimoku_Cloud_Status"}

\* the columns of the three classifiers.  They are kept on the latest row
\* only: the extractors read them from the combined snapshot.
LabelColumns == {"MACD-RSI", "MACD-RCI", "BB-MACD"}

\* calculate_all_indicators, then signal_df['Ticker'] = ticker
signal_df(file, ticker) ==
    LET c == file.Close
        r == calculate_ichimoku(file)
    IN  [i \in 1..Len(c) |->
            [col \in SignalColumns |->
                CASE col = "Date" -> i
                  [] col = "Ticker" -> ticker
                  [] col \in {"High", "Low", "Close", "Volume"} -> file[col][i]
                  [] col = "Ichimoku_Tenkan" -> r.tenkan_sen[i - 1]
                  [] col = "Ichimoku_Kijun" -> r.kijun_sen[i - 1]
                  [] col = "Ichimoku_SenkouA" -> r.senkou_span_a[i - 1]
                  [] col = "Ichimoku_SenkouB" -> r.senkou_span_b[i - 1]
                  [] col = "Ichimoku_Above_Cloud" -> r.above_cloud[i - 1]
                  [] col = "Ichimoku_Below_Cloud" -> r.below_cloud[i - 1]
                  [] col = "Ichimoku_Chikou_Above_Price" -> r.chikou_above_price[i - 1]
                  [] col = "Ichimoku_Chikou_Below_Price" -> r.chikou_below_price[i - 1]
                  [] col = "SanYaku_Kouten" -> r.SanYaku_Kouten[i - 1]
                  [] col = "SanYaku_Anten" -> r.SanYaku_Anten[i - 1]
                  [] col = "Ichimoku_Cloud_Status" -> Ichimoku_Cloud_Status(r, i - 1)
                  [] OTHER -> SMA(c, CHOOSE q \in {5, 25, 75} : MAName(q) = col, i)]]

\* MACD and MACD_Signal of talib.MACD are undefined on the first
\* slowperiod + signalperiod - 2 bars; i counts the bars from 1
macd_defined(i) == i >= MACD_SLOW_PERIOD + MACD_SIGNAL_PERIOD - 1

\* what the three classifiers can leave on the latest of n bars.  The
\* indicators they read (MACD, RSI, RCI, Bollinger) are not computed here, so
\* the labels are an input; the classifiers bound them: every Buy needs MACD
\* above MACD_Signal on the bar and every Sell needs it below, and BB-MACD
\* reads both two bars back as well.
LatestLabels(n) ==
    {lab \in [LabelColumns -> {"", "Buy", "Sell"}] :
        /\ ~(\E a, b \in LabelColumns : lab[a] = "Buy" /\ lab[b] = "Sell")
        /\ ~macd_defined(n) => \A a \in LabelColumns : lab[a] = ""
        /\ ~macd_defined(n - 2) => lab["BB-MACD"] = ""}

TextColumns == {"Signal", "Ichimoku_SanYaku", "Ichimoku_Cloud_Status"}
NumericColumns ==
    {"Close", "High", "Low", "Volume", "MA5", "MA25", "MA75",
     "Ichimoku_Tenkan", "Ichimoku_Kijun", "Ichimoku_SenkouA", "Ichimoku_SenkouB"}

\* process_data_for_ticker, lines 1655-1665: every NaN column of the latest
\* row is filled, a text column with '' and any other column with 0
FillNaN(row) ==
    [col \in DOMAIN row |->
        IF col \in NumericColumns /\ isna(row[col]) THEN 0 ELSE row[col]]

\* signal_df.iloc[-1:] with its NaN filled: the latest row, with the labels
\* the classifiers gave it
latest_row(all_rows, lab) ==
    LET filled == FillNaN(all_rows[Len(all_rows)])
    IN  [col \in SignalColumns \cup LabelColumns |->
            IF col \in LabelColumns THEN lab[col] ELSE filled[col]]

\* pd.read_csv of the combined snapshot: an empty text cell is read as NaN
read_csv(file) ==
    [k \in 1..Len(file.rows) |->
        [col \in DOMAIN file.rows[k] |->
            IF col \in TextColumns \cup LabelColumns /\ file.rows[k][col] = ""
            THEN NaNText ELSE file.rows[k][col]]]

\* the close series of a fetched history of n bars; the prices are multiples
\* of 300 so that every mean and every midpoint is exact
History(n) == [i \in 1..n |-> 300 * (10 + i)]

\* what stock.history() may do: a history, an empty frame, an exception, or
\* the exception of a request refused for the rate limit
YfOutcomes ==
    {[kind |-> "hist", Close |-> History(n)] : n \in 1..MaxHist}
        \cup {[kind |-> "empty"], [kind |-> "exception"], [kind |-> "rate_limited"]}

\* what Result/{ticker}.csv may be before the run
DiskFiles ==
    {Absent, Frame(History(1)), [kind |-> "empty"], [kind |-> "not_dates"],
     [kind |-> "no_columns"], [kind |-> "unreadable"]}

Failed == [raised |-> FALSE, success |-> FALSE]

\* process_data_for_ticker with its try/except left out: an unreadable file
\* raises out of the function
process_data_for_ticker_uncaught(file, ticker) ==
    CASE file.kind \in {"absent", "empty", "not_dates", "no_columns"} -> {Failed}
      [] file.kind = "unreadable" -> {[raised |-> TRUE, success |-> FALSE]}
      [] file.kind = "frame" ->
            LET all_rows == signal_df(file, ticker)
            IN  {[raised |-> FALSE, success |-> TRUE, signal_df |-> all_rows,
                  latest_data |-> latest_row(all_rows, lab)] :
                    lab \in LatestLabels(Len(all_rows))}

\* process_data_for_ticker: (False, None) on a missing file, an empty table,
\* a non-date index, a missing OHLCV column or any exception; otherwise the
\* full history and the filled latest row.  The results it can give for a
\* price file: one for each labelling the classifiers can leave.
process_data_for_ticker(file, ticker) ==
    CASE file.kind \in {"absent", "empty", "not_dates", "no_columns"} -> {Failed}
      [] file.kind = "unreadable" -> {Failed}
      [] file.kind = "frame" ->
            LET all_rows == signal_df(file, ticker)
            IN  {[raised |-> FALSE, success |-> TRUE, signal_df |-> all_rows,
                  latest_data |-> latest_row(all_rows, lab)] :
                    lab \in LatestLabels(Len(all_rows))}

\* what pd.read_csv makes of the Ticker column, which load_company_list
\* reads without a dtype: int64 when every cell is a number, str (object)
\* when a cell holds a letter or a suffix
TickerDtypes == {"int64", "object"}

\* the roster file of n instruments, the i-th row being instrument i, and the
\* files load_company_list answers with an empty list: none, one without the
\* Ticker column, one that cannot be parsed
Roster(n, dtype) == [kind |-> "csv", columns |-> {"Ticker", "Company"},
                     Ticker |-> [i \in 1..n |-> i], dtype |-> dtype]
RosterFiles ==
    {Roster(n, dtype) : n \in 0..MaxTickers, dtype \in TickerDtypes}
        \cup {Absent, [kind |-> "unreadable"],
              [kind |-> "csv", columns |-> {"Code", "Company"},
               Ticker |-> [i \in 1..MaxTickers |-> i], dtype |-> "object"]}

\* fetch_stock_data, line 69: ticker.endswith() exists on a str only; on a
\* ticker read as a number it raises AttributeError inside the try block
endswith_raises(file) == file.kind = "csv" /\ file.dtype = "int64"

\* load_company_list: the Ticker column as a list, or the empty list
load_company_list(file) ==
    IF file.kind = "absent" THEN <<>>
    ELSE IF file.kind = "unreadable" THEN <<>>
    ELSE IF "Ticker" \notin file.columns THEN <<>>
    ELSE file.Ticker

\* main() with the test on the list left out
after_load_unchecked(list) == "fetch"

\* main(), lines 59-62: an empty list ends the run with status 1
after_load(list) == IF list = <<>> THEN "return_1" ELSE "fetch"

\* the files of extract_BB_MACD_signals and of extract_sanyaku_signals
BbMacdFiles == {"bb_macd_buy_signals.csv", "bb_macd_sell_signals.csv"}
SanyakuFiles == {"sanyaku_kouten.csv", "sanyaku_anten.csv"}

\* Result/ and the log before a first run: no result file, nothing logged
FreshResults ==
    /\ IdleRun /\ IdleUpload
    /\ latest_signal = <<>> /\ pcExtract = "idle" /\ pcBreak = "idle"
    /\ result_csv = [name \in SignalTables |-> Absent]
    /\ Range_Brake = Absent
    /\ ichimoku_cross = [file \in CrossFiles |-> <<>>]
    /\ cross_log = <<>>
    /\ ichimoku_results = [returned |-> FALSE, ran |-> {}]
    /\ strong_buying_trend = Absent
    /\ strong_selling_trend = Absent
    /\ push_mark = Absent
    /\ bb_macd_csv = [file \in BbMacdFiles |-> Absent]
    /\ sanyaku_csv = [file \in SanyakuFiles |-> Absent]

\* config.TECHNICAL_DIR, the directory identify_range_breakouts lists: empty,
\* or holding the signal file of one instrument that breaks out
TechnicalDirs == {<<>>, <<BreakoutRows(90, 1, 0, 1000, 50, 100, 300000)>>}

\* what the extractors leave alone: the inputs and the files of
\* fetch_stock_data and calculate_signals, and the other components
calcVars == <<charts_only, company_list, fetch_log, tickers, yf, price_csv, stock_data,
              results, signal_csv, latest_csv, all_latest_signals, snapshot, pos>>
restVars == <<sigVars, rciVars, ichVars, runVars, uploadVars, latest_signal, pcExtract,
              csv_files, pcBreak, blocked>>

InitBatch ==
    /\ IdleSig /\ IdleRci /\ IdleIch /\ FreshResults
    /\ blocked = {}
    /\ csv_files \in TechnicalDirs
    /\ charts_only \in BOOLEAN
    /\ company_list \in RosterFiles
    /\ fetch_log = <<>>
    /\ tickers = <<>>
    /\ LET n == Len(load_company_list(company_list)) IN
        /\ yf \in [1..n -> YfOutcomes]
        /\ price_csv \in [1..n -> DiskFiles]
        /\ \A t \in 1..n : yf[t].kind = "hist" => price_csv[t] = Absent
        /\ stock_data = [t \in 1..n |-> "unset"]
        /\ results = [t \in 1..n |-> "unset"]
        /\ signal_csv = [t \in 1..n |-> Absent]
        /\ latest_csv = [t \in 1..n |-> Absent]
    /\ all_latest_signals = <<>>
    /\ snapshot = Absent
    /\ extract_success = "unset"
    /\ pos = 0
    /\ pcMain = "start"

\* main(), lines 54-62: with --charts-only the roster is not read
LoadCompanyList ==
    /\ pcMain = "start"
    /\ IF charts_only
       THEN pcMain' = "charts" /\ UNCHANGED tickers
       ELSE /\ tickers' = load_company_list(company_list)
            /\ pcMain' = after_load(load_company_list(company_list))
    /\ pos' = 1
    /\ UNCHANGED <<charts_only, company_list, fetch_log, yf, price_csv, stock_data, results,
                   signal_csv, latest_csv, all_latest_signals, snapshot,
                   extract_success, outVars, sigVars, rciVars, ichVars, extVars>>

\* the records one pass of the loop over batch_tickers writes.  When line 69
\* raises, the handler logs the error and nothing else: the request is not
\* logged and stock.history() is not called.  Otherwise the request is logged,
\* stock.history() is called once and its outcome is logged.
fetch_records(ticker, hist, raises) ==
    IF raises
    THEN <<[level |-> "error", ticker |-> ticker, event |-> "exception"]>>
    ELSE <<[level |-> "info", ticker |-> ticker, event |-> "fetching"],
           IF hist.kind = "hist"
           THEN [level |-> "info", ticker |-> ticker, event |-> "saved"]
           ELSE IF hist.kind = "empty"
           THEN [level |-> "warning", ticker |-> ticker, event |-> "no data"]
           ELSE [level |-> "error", ticker |-> ticker, event |-> "exception"]>>

\* a driver that computes the indicators of a ticker right after its fetch
after_fetch_interleaved(p, list) == [pc |-> "signals", pos |-> p]

\* fetch_stock_data runs its loop to the end before main() calls
\* calculate_signals
after_fetch(p, list) ==
    IF p = Len(list) THEN [pc |-> "signals", pos |-> 1]
    ELSE [pc |-> "fetch", pos |-> p + 1]

\* fetch_stock_data: one ticker of the loop.  The history is saved and kept
\* only when line 69 has not raised and stock.history() gave a non-empty
\* frame; every other pass stores None and writes no file.
FetchTicker ==
    /\ pcMain = "fetch"
    /\ LET ticker == tickers[pos]
           hist == yf[ticker]
           raises == endswith_raises(company_list)
       IN  /\ IF ~raises /\ hist.kind = "hist"
              THEN /\ price_csv' = [price_csv EXCEPT ![ticker] = Frame(hist.Close)]
                   /\ stock_data' = [stock_data EXCEPT ![ticker] = "hist"]
              ELSE /\ stock_data' = [stock_data EXCEPT ![ticker] = "None"]
                   /\ UNCHANGED price_csv
           /\ fetch_log' = fetch_log \o fetch_records(ticker, hist, raises)
    /\ pcMain' = after_fetch(pos, tickers).pc
    /\ pos' = after_fetch(pos, tickers).pos
    /\ UNCHANGED <<charts_only, company_list, tickers, yf, results, signal_csv, latest_csv,
                   all_latest_signals, snapshot, extract_success,
                   outVars, sigVars, rciVars, ichVars, extVars>>

\* calculate_signals: one ticker of the loop; an exception out of
\* process_data_for_ticker would leave calculate_signals for main()'s handler
ProcessTicker ==
    /\ pcMain = "signals"
    /\ \E r \in process_data_for_ticker(price_csv[tickers[pos]], tickers[pos]) :
       LET ticker == tickers[pos]
       IN  IF r.raised
           THEN /\ pcMain' = "charts"
                /\ UNCHANGED <<results, signal_csv, latest_csv, all_latest_signals, pos>>
           ELSE /\ results' = [results EXCEPT ![ticker] = IF r.success THEN "True" ELSE "False"]
                /\ IF r.success
                   THEN /\ signal_csv' = [signal_csv EXCEPT ![ticker] = Table(r.signal_df)]
                        /\ latest_csv' = [latest_csv EXCEPT ![ticker] = Table(<<r.latest_data>>)]
                        /\ all_latest_signals' = Append(all_latest_signals, r.latest_data)
                   ELSE UNCHANGED <<signal_csv, latest_csv, all_latest_signals>>
                /\ IF pos = Len(tickers)
                   THEN pcMain' = "combine" /\ pos' = 1
                   ELSE pcMain' = "signals" /\ pos' = pos + 1
    /\ UNCHANGED <<charts_only, company_list, fetch_log, tickers, yf, price_csv, stock_data, snapshot,
                   extract_success, outVars, sigVars, rciVars, ichVars, extVars>>

\* calculate_signals, lines 1812-1855: the combined snapshot, then the
\* per-ticker latest files are removed
CombineLatest ==
    /\ pcMain = "combine"
    /\ IF all_latest_signals # <<>>
       THEN /\ snapshot' = Table(all_latest_signals)
            /\ latest_csv' = [t \in DOMAIN latest_csv |->
                                 IF results[t] = "True" THEN Absent ELSE latest_csv[t]]
       ELSE UNCHANGED <<snapshot, latest_csv>>
    /\ pcMain' = "extract"
    /\ UNCHANGED <<charts_only, company_list, fetch_log, tickers, yf, price_csv, stock_data, results,
                   signal_csv, all_latest_signals, extract_success, pos,
                   outVars, sigVars, rciVars, ichVars, extVars>>

(***************************************************************************)
(* The files the extractors of extract_all_ichimoku_signals write to       *)
(* Result/.  Each extractor computes its tables and then writes them with  *)
(* to_csv, one after the other; a to_csv to a path a directory stands at   *)
(* raises, the handler around the function logs the error and the function *)
(* returns False, leaving the files it wrote before.                       *)
(***************************************************************************)
Extractors ==
    <<"extract_signals", "extract_strong_buying_trend", "extract_strong_selling_trend",
      "extract_sanyaku_signals", "extract_ichimoku_cross_signals">>

StrongTrendFile(side) ==
    IF side = "buying" THEN "strong_buying_trend.csv" ELSE "strong_selling_trend.csv"

\* the to_csv calls of an extractor, in the order of the source
WriteOrder(extractor) ==
    CASE extractor = "extract_signals" ->
            <<"macd_rsi_signal_result_buy.csv", "macd_rsi_signal_result_sell.csv",
              "macd_rci_signal_result_buy.csv", "macd_rci_signal_result_sell.csv",
              "macd_bb_signal_result_buy.csv", "macd_bb_signal_result_sell.csv",
              "macd_rsi_rci_signal_result_buy.csv", "macd_rsi_rci_signal_result_sell.csv">>
      [] extractor = "extract_strong_buying_trend" -> <<StrongTrendFile("buying")>>
      [] extractor = "extract_strong_selling_trend" -> <<StrongTrendFile("selling")>>
      [] extractor = "extract_sanyaku_signals" ->
            <<"sanyaku_kouten.csv", "sanyaku_anten.csv">>
      [] extractor = "extract_ichimoku_cross_signals" ->
            <<"ichimoku_GC_under_cloud.csv", "ichimoku_GC_upper_cloud.csv",
              "ichimoku_DC_upper_cloud.csv", "ichimoku_DC_under_cloud.csv">>

RECURSIVE written_before(_, _, _)
\* the files of order written before the first to_csv that raises
written_before(order, dirs, k) ==
    IF k > Len(order) THEN {}
    ELSE IF order[k] \in dirs THEN {}
    ELSE {order[k]} \cup written_before(order, dirs, k + 1)

\* the files after a run of to_csv calls in that order: the new content
\* where the write was reached, the old one elsewhere
write_in_order(old, new, order, dirs) ==
    [name \in DOMAIN old |->
        IF name \in written_before(order, dirs, 1) THEN new[name] ELSE old[name]]

\* the extractors that return False: each of the five when the snapshot is
\* not there, and otherwise those with a to_csv that raises
returns_false(file, dirs) ==
    {Extractors[k] : k \in {j \in 1..Len(Extractors) :
        \/ file.kind # "table"
        \/ \E i \in 1..Len(WriteOrder(Extractors[j])) : WriteOrder(Extractors[j])[i] \in dirs}}

RECURSIVE run_until_failure(_, _)
\* extract_all_ichimoku_signals: the extractors that returned True, those
\* before the first that returns False
run_until_failure(fails, k) ==
    IF k > Len(Extractors) THEN {}
    ELSE IF Extractors[k] \in fails THEN {}
    ELSE {Extractors[k]} \cup run_until_failure(fails, k + 1)

\* main(), line 78: extract_signals returns False when the snapshot is not
\* there or a write raises, and otherwise writes the eight signal tables
ExtractSignals ==
    /\ pcMain = "extract"
    /\ extract_success' = IF "extract_signals" \in returns_false(snapshot, blocked)
                          THEN "False" ELSE "True"
    /\ result_csv' = IF snapshot.kind = "table"
                     THEN write_in_order(result_csv, extract_signals(read_csv(snapshot)),
                                         WriteOrder("extract_signals"), blocked)
                     ELSE result_csv
    /\ pcMain' = "breakout"
    /\ UNCHANGED <<calcVars, restVars, outVars, Range_Brake, ichimoku_cross, cross_log,
                   ichimoku_results>>

\* main(), line 83: identify_range_breakouts over the files of
\* config.TECHNICAL_DIR
IdentifyBreakouts ==
    /\ pcMain = "breakout"
    /\ IF csv_files = <<>>
       THEN UNCHANGED Range_Brake
       ELSE \E listing \in Listings(csv_files) :
                Range_Brake' = Table(breakout_stocks(listing, csv_files))
    /\ pcMain' = "strong_buying"
    /\ UNCHANGED <<calcVars, restVars, outVars, extract_success, result_csv,
                   ichimoku_cross, cross_log, ichimoku_results>>

(***************************************************************************)
(* extract_strong_buying_trend and extract_strong_selling_trend.  Both     *)
(* read the combined snapshot for the conditions on the latest bar and the *)
(* last two rows of {ticker}_signal.csv for the gap between the averages.  *)
(***************************************************************************)
short_ma == MAName(MA_PERIODS[1])
mid_ma == MAName(MA_PERIODS[2])
long_ma == MAName(MA_PERIODS[3])

\* a difference of two cells: NaN when either is NaN
Sub(a, b) == IF isna(a) \/ isna(b) THEN NaN ELSE a - b

\* extract_strong_buying_trend, lines 646-655
condition2_buying(row) == Gt(row[short_ma], row[mid_ma]) /\ Gt(row[mid_ma], row[long_ma])
condition3_buying(row) == Gt(row["Close"], row[short_ma])
condition4(row) == Ge(row["Volume"], 100000)
condition_results_buying(row) ==
    condition2_buying(row) /\ condition3_buying(row) /\ condition4(row)

\* extract_strong_selling_trend, lines 848-857
condition2_selling(row) == Lt(row[short_ma], row[mid_ma]) /\ Lt(row[mid_ma], row[long_ma])
condition3_selling(row) == Lt(row["Close"], row[short_ma])
condition_results_selling(row) ==
    condition2_selling(row) /\ condition3_selling(row) /\ condition4(row)

\* recent_data = ticker_df.tail(2)
tail2(rows) == <<rows[Len(rows) - 1], rows[Len(rows)]>>

\* the gap between the short and the mid average on one row, seen from the
\* buying side (short - mid) or the selling side (mid - short)
ma_diff(row, side) ==
    IF side = "buying" THEN Sub(row[short_ma], row[mid_ma])
    ELSE Sub(row[mid_ma], row[short_ma])

\* the body of the loop over potential_tickers: the rows appended for one
\* snapshot row.  A signal file that is not there or has fewer than two rows
\* leaves the ticker out; so does a gap that did not grow.
strong_trend_rows(current_row, file, side) ==
    IF file.kind # "table" THEN <<>>
    ELSE IF Len(file.rows) < 2 THEN <<>>
    ELSE LET recent_data == tail2(file.rows)
             previous_diff == ma_diff(recent_data[1], side)
             current_diff == ma_diff(recent_data[2], side)
         IN  IF Gt(current_diff, previous_diff)
             THEN <<[Ticker |-> current_row["Ticker"],
                     Close |-> current_row["Close"],
                     Volume |-> current_row["Volume"],
                     MA_Short |-> current_row[short_ma],
                     MA_Mid |-> current_row[mid_ma],
                     MA_Diff_Previous |-> previous_diff,
                     MA_Diff_Current |-> current_diff,
                     MA_Diff_Change |-> current_diff - previous_diff]>>
             ELSE <<>>

\* the loop over the snapshot rows that pass conditions 2 to 4
RECURSIVE strong_trend_tickers(_, _, _, _)
strong_trend_tickers(rows, files, side, k) ==
    IF k > Len(rows) THEN <<>>
    ELSE LET row == rows[k]
             passes == IF side = "buying" THEN condition_results_buying(row)
                       ELSE condition_results_selling(row)
         IN  (IF passes THEN strong_trend_rows(row, files[row["Ticker"]], side) ELSE <<>>)
                 \o strong_trend_tickers(rows, files, side, k + 1)

\* sort_values(by='MA_Diff_Ratio', ascending=False), the ratio being
\* MA_Diff_Current / Close * 100: every order the sort may leave equal
\* ratios in.  The ratios are compared by cross-multiplication, both sides
\* divided by 12, which divides every gap of the model, and by 300, which
\* divides every close.
RatioGe(a, b) ==
    (a.MA_Diff_Current \div 12) * (b.Close \div 300)
        >= (b.MA_Diff_Current \div 12) * (a.Close \div 300)
sort_by_ratio(rows) ==
    LET n == Len(rows)
        orders == {o \in [1..n -> 1..n] : \A i, j \in 1..n : i # j => o[i] # o[j]}
    IN  {[i \in 1..n |-> rows[o[i]]] :
            o \in {q \in orders : \A i \in 1..n, j \in 1..n :
                                     i < j => RatioGe(rows[q[i]], rows[q[j]])}}

\* what either extractor writes: nothing when the snapshot is missing or the
\* write raises, otherwise the sorted rows (an empty table when there are none)
strong_trend_outputs(side) ==
    IF snapshot.kind # "table" \/ StrongTrendFile(side) \in blocked THEN {Absent}
    ELSE {Table(out) : out \in sort_by_ratio(
              strong_trend_tickers(snapshot.rows, signal_csv, side, 1))}

\* main(), lines 99-105
ExtractStrongBuyingTrend ==
    /\ pcMain = "strong_buying"
    /\ \E written \in strong_trend_outputs("buying") :
           strong_buying_trend' = IF written = Absent THEN strong_buying_trend ELSE written
    /\ pcMain' = "strong_selling"
    /\ UNCHANGED <<calcVars, extract_success, strong_selling_trend, push_mark, bb_macd_csv,
                   sanyaku_csv, sigVars, rciVars, ichVars, extVars>>

\* main(), lines 107-113
ExtractStrongSellingTrend ==
    /\ pcMain = "strong_selling"
    /\ \E written \in strong_trend_outputs("selling") :
           strong_selling_trend' = IF written = Absent THEN strong_selling_trend ELSE written
    /\ pcMain' = "push_mark"
    /\ UNCHANGED <<calcVars, extract_success, strong_buying_trend, push_mark, bb_macd_csv,
                   sanyaku_csv, sigVars, rciVars, ichVars, extVars>>

(***************************************************************************)
(* extract_push_mark_signals.                                              *)
(***************************************************************************)
\* condition1 = df['MA_Diff_Abs'] <= df['Close_2_Percent'], the latter being
\* Close * 0.02
condition1_push_mark(row) ==
    LET MA_Diff == Sub(row[short_ma], row[mid_ma])
        MA_Diff_Abs == IF isna(MA_Diff) THEN NaN
                       ELSE IF MA_Diff < 0 THEN 0 - MA_Diff ELSE MA_Diff
    IN  ~isna(MA_Diff_Abs) /\ 50 * MA_Diff_Abs <= row["Close"]

\* the body of the loop over potential_tickers: conditions 2 and 3 on the
\* last two rows of the signal file
push_mark_rows(current_row, file) ==
    IF file.kind # "table" THEN <<>>
    ELSE IF Len(file.rows) < 2 THEN <<>>
    ELSE LET recent_data == tail2(file.rows)
             previous_diff == ma_diff(recent_data[1], "buying")
             current_diff == ma_diff(recent_data[2], "buying")
             previous_mid_ma == recent_data[1][mid_ma]
             current_mid_ma == recent_data[2][mid_ma]
         IN  IF Gt(current_diff, previous_diff) /\ Gt(current_mid_ma, previous_mid_ma)
             THEN <<[Ticker |-> current_row["Ticker"],
                     Close |-> current_row["Close"],
                     MA_Short |-> current_row[short_ma],
                     MA_Mid |-> current_row[mid_ma]]>>
             ELSE <<>>

RECURSIVE push_mark_tickers(_, _, _)
push_mark_tickers(rows, files, k) ==
    IF k > Len(rows) THEN <<>>
    ELSE (IF condition1_push_mark(rows[k])
          THEN push_mark_rows(rows[k], files[rows[k]["Ticker"]]) ELSE <<>>)
             \o push_mark_tickers(rows, files, k + 1)

\* main(), lines 115-125
ExtractPushMark ==
    /\ pcMain = "push_mark"
    /\ push_mark' = IF snapshot.kind # "table" THEN push_mark
                    ELSE Table(push_mark_tickers(snapshot.rows, signal_csv, 1))
    /\ pcMain' = "bb_macd"
    /\ UNCHANGED <<calcVars, extract_success, strong_buying_trend, strong_selling_trend,
                   bb_macd_csv, sanyaku_csv, sigVars, rciVars, ichVars, extVars>>

\* extract_BB_MACD_signals: the rows of the snapshot labelled Buy that closed
\* above the Midpoint, and those labelled Sell that closed below it
extract_BB_MACD_signals(rows) ==
    [file \in BbMacdFiles |->
        IF file = "bb_macd_buy_signals.csv"
        THEN Table(Filter(rows, {"BB-MACD"}, "Buy", "above"))
        ELSE Table(Filter(rows, {"BB-MACD"}, "Sell", "below"))]

\* main(), line 129: without the snapshot the function returns its empty
\* result and writes nothing
ExtractBbMacd ==
    /\ pcMain = "bb_macd"
    /\ bb_macd_csv' = IF snapshot.kind = "table"
                      THEN extract_BB_MACD_signals(read_csv(snapshot)) ELSE bb_macd_csv
    /\ pcMain' = "ichimoku"
    /\ UNCHANGED <<calcVars, extract_success, strong_buying_trend, strong_selling_trend,
                   push_mark, sanyaku_csv, sigVars, rciVars, ichVars, extVars>>

\* extract_sanyaku_signals, lines 1041 and 1080: the rows of the snapshot
\* whose flag is True
sanyaku_signals(rows, flag) ==
    LET hit == SelectSeq(rows, LAMBDA row : row[flag] = TRUE)
    IN  [k \in 1..Len(hit) |-> [Ticker |-> hit[k]["Ticker"], Close |-> hit[k]["Close"]]]
extract_sanyaku_signals(rows) ==
    [file \in SanyakuFiles |->
        Table(sanyaku_signals(rows, IF file = "sanyaku_kouten.csv"
                                    THEN "SanYaku_Kouten" ELSE "SanYaku_Anten"))]

\* the rows of a signal file as extract_ichimoku_cross_signals reads them
signal_run(rows) ==
    LET column(name) == [i \in 0..(Len(rows) - 1) |-> rows[i + 1][name]]
    IN  [data_length |-> Len(rows),
         tenkan_sen |-> column("Ichimoku_Tenkan"), kijun_sen |-> column("Ichimoku_Kijun"),
         above_cloud |-> column("Ichimoku_Above_Cloud"),
         below_cloud |-> column("Ichimoku_Below_Cloud"),
         chikou_above_price |-> column("Ichimoku_Chikou_Above_Price"),
         chikou_below_price |-> column("Ichimoku_Chikou_Below_Price")]

\* the loop over all_tickers, the tickers of the snapshot: the file an
\* instrument goes to and the records it leaves.  An instrument without a
\* signal file is skipped with a warning.
ticker_cross_files(files, t) ==
    IF files[t].kind # "table" THEN {} ELSE cross_files(signal_run(files[t].rows))
ticker_cross_records(files, t) ==
    IF files[t].kind # "table"
    THEN <<[level |-> "warning", ticker |-> t, event |-> "no signal file"]>>
    ELSE cross_records(t, signal_run(files[t].rows))

RECURSIVE snapshot_cross_log(_, _, _)
snapshot_cross_log(rows, files, k) ==
    IF k > Len(rows) THEN <<>>
    ELSE ticker_cross_records(files, rows[k]["Ticker"])
             \o snapshot_cross_log(rows, files, k + 1)

extract_ichimoku_cross_signals(rows, files) ==
    LET all_tickers == [k \in 1..Len(rows) |-> rows[k]["Ticker"]]
    IN  [file \in CrossFiles |->
            SelectSeq(all_tickers, LAMBDA t : file \in ticker_cross_files(files, t))]

\* main(), line 142: extract_all_ichimoku_signals runs extract_signals and the
\* two strong-trend extractors once more, then the two Ichimoku extractors,
\* and stops at the first that returns False.  extract_ichimoku_cross_signals
\* writes its files after its loop over all_tickers, which leaves the records.
ExtractIchimoku ==
    /\ pcMain = "ichimoku"
    /\ LET fails == returns_false(snapshot, blocked)
           ran == run_until_failure(fails, 1)
           \* the extractors called, the last of which may have returned False
           called == {Extractors[k] : k \in {j \in 1..Len(Extractors) :
                         \A i \in 1..(j - 1) : Extractors[i] \in ran}}
           reads(extractor) == extractor \in called /\ snapshot.kind = "table"
       IN  /\ ichimoku_results' =
                  [returned |-> \A k \in 1..Len(Extractors) : Extractors[k] \in ran,
                   ran |-> ran]
           /\ result_csv' = IF reads("extract_signals")
                            THEN write_in_order(result_csv,
                                                extract_signals(read_csv(snapshot)),
                                                WriteOrder("extract_signals"), blocked)
                            ELSE result_csv
           /\ IF reads("extract_strong_buying_trend")
              THEN \E written \in strong_trend_outputs("buying") :
                       strong_buying_trend' =
                           IF written = Absent THEN strong_buying_trend ELSE written
              ELSE UNCHANGED strong_buying_trend
           /\ IF reads("extract_strong_selling_trend")
              THEN \E written \in strong_trend_outputs("selling") :
                       strong_selling_trend' =
                           IF written = Absent THEN strong_selling_trend ELSE written
              ELSE UNCHANGED strong_selling_trend
           /\ sanyaku_csv' = IF reads("extract_sanyaku_signals")
                             THEN write_in_order(sanyaku_csv,
                                                 extract_sanyaku_signals(read_csv(snapshot)),
                                                 WriteOrder("extract_sanyaku_signals"), blocked)
                             ELSE sanyaku_csv
           /\ IF reads("extract_ichimoku_cross_signals")
              THEN /\ ichimoku_cross' =
                          write_in_order(ichimoku_cross,
                                         extract_ichimoku_cross_signals(read_csv(snapshot),
                                                                        signal_csv),
                                         WriteOrder("extract_ichimoku_cross_signals"), blocked)
                   /\ cross_log' = snapshot_cross_log(read_csv(snapshot), signal_csv, 1)
              ELSE UNCHANGED <<ichimoku_cross, cross_log>>
    /\ pcMain' = "charts"
    /\ UNCHANGED <<calcVars, restVars, extract_success, push_mark, bb_macd_csv, Range_Brake>>

\* close series that drift by one step a bar, up or down, and end with a
\* jump of the last bar
DriftClose(dir, jump, n) ==
    [i \in 1..n |-> 300 * (4000 + dir * i + (IF i = n THEN jump ELSE 0))]

DriftFiles ==
    {PriceFile(DriftClose(dir, jump, n), [i \in 1..n |-> v]) :
        dir \in {1, 0 - 1}, jump \in {0, 5, 500}, n \in {2, 26, 30}, v \in {99999, 100000}}

\* close series for the trend extractors, n bars long; every price is a
\* multiple of 300 so that every mean and every midpoint is exact.  The shapes rise or fall with
\* a growing, a constant or a shrinking step; "up_dip" and "down_spike" end a
\* growing move with one bar against it.
TrendShapes ==
    {"accel_up", "linear_up", "decel_up", "up_dip",
     "accel_down", "linear_down", "decel_down", "down_spike"}

TrendClose(shape, n) ==
    [i \in 1..n |->
        300 * (CASE shape = "accel_up" -> 100 + i * i
                [] shape = "linear_up" -> 100 + 50 * i
                [] shape = "decel_up" -> 10100 - (100 - i) * (100 - i)
                [] shape = "up_dip" -> IF i = n /\ n > 10 THEN 100 + (i - 10) * (i - 10)
                                       ELSE 100 + i * i
                [] shape = "accel_down" -> 10100 - i * i
                [] shape = "linear_down" -> 10100 - 50 * i
                [] shape = "decel_down" -> 100 + (100 - i) * (100 - i)
                [] shape = "down_spike" -> IF i = n /\ n > 10 THEN 10100 - (i - 10) * (i - 10)
                                           ELSE 10100 - i * i)]

TrendLengths == {1, 2, 5, 25, 26, 27, 74, 75, 76, MaxTrendBars}
TrendVolumes == {99999, 100000, FlatVolume}

\* the price files of a universe of one instrument, and of larger universes
\* of instruments in a growing move
TrendFiles ==
    {PriceFile(TrendClose(shape, n), [i \in 1..n |-> v]) :
        shape \in TrendShapes, n \in TrendLengths, v \in TrendVolumes}
TrendPairFiles ==
    {PriceFile(TrendClose(shape, n), [i \in 1..n |-> FlatVolume]) :
        shape \in {"accel_up", "accel_down"}, n \in {26, 76}}

\* close series of a move that turned TurnBars bars before the latest bar:
\* a fall (or a flat stretch) and then a rise, and the mirror image
TurnBars == 9
TurnClose(n, fall, rise, dir) ==
    [i \in 1..n |->
        300 * (5000 + dir * (IF i <= n - TurnBars THEN 0 - fall * i
                             ELSE rise * (i - (n - TurnBars)) - fall * (n - TurnBars)))]
TurnSteps == {<<0, 4>>, <<4, 8>>}
TurnFile(step, dir) ==
    PriceFile(TurnClose(MaxTrendBars, step[1], step[2], dir),
              [i \in 1..MaxTrendBars |-> FlatVolume])
TurnFiles == {TurnFile(step, dir) : step \in TurnSteps, dir \in {1, 0 - 1}}

RECURSIVE fetch_log_of(_, _, _, _)
\* the log fetch_stock_data leaves after its loop over list
fetch_log_of(list, outcomes, raises, k) ==
    IF k > Len(list) THEN <<>>
    ELSE fetch_records(list[k], outcomes[list[k]], raises)
            \o fetch_log_of(list, outcomes, raises, k + 1)

\* main() after fetch_stock_data over a roster of text tickers: every
\* stock.history() has raised and is logged, and every instrument has the
\* price file of an earlier run
InitTrend ==
    /\ IdleSig /\ IdleRci /\ IdleIch /\ FreshResults
    /\ blocked = {}
    /\ csv_files = <<>>
    /\ charts_only = FALSE
    /\ \E n \in 1..MaxTickers :
        /\ company_list = Roster(n, "object")
        /\ tickers = [i \in 1..n |-> i]
        /\ yf = [t \in 1..n |-> [kind |-> "exception"]]
        /\ fetch_log = fetch_log_of(tickers, yf, endswith_raises(company_list), 1)
        /\ price_csv \in [1..n -> IF n = 1 THEN TrendFiles \cup DriftFiles \cup TurnFiles
                                   ELSE TrendPairFiles]
        /\ stock_data = [t \in 1..n |-> "None"]
        /\ results = [t \in 1..n |-> "unset"]
        /\ signal_csv = [t \in 1..n |-> Absent]
        /\ latest_csv = [t \in 1..n |-> Absent]
    /\ all_latest_signals = <<>>
    /\ snapshot = Absent
    /\ extract_success = "unset"
    /\ pos = 1
    /\ pcMain = "signals"

\* main() after fetch_stock_data over two instruments whose moves turned
\* TurnBars bars before the latest bar, one up and one down, with the fetches
\* failed as in InitTrend.  A directory may stand at one of the paths
\* extract_all_ichimoku_signals writes to.
InitAll ==
    /\ IdleSig /\ IdleRci /\ IdleIch /\ FreshResults
    /\ blocked \in {{}} \cup {{path} : path \in SignalTables \cup SanyakuFiles \cup CrossFiles
                                          \cup {StrongTrendFile("buying"),
                                                StrongTrendFile("selling")}}
    /\ csv_files = <<>>
    /\ charts_only = FALSE
    /\ company_list = Roster(2, "object")
    /\ tickers = <<1, 2>>
    /\ yf = [t \in 1..2 |-> [kind |-> "exception"]]
    /\ fetch_log = fetch_log_of(tickers, yf, endswith_raises(company_list), 1)
    /\ \E step \in TurnSteps : price_csv = <<TurnFile(step, 1), TurnFile(step, 0 - 1)>>
    /\ stock_data = [t \in 1..2 |-> "None"]
    /\ results = [t \in 1..2 |-> "unset"]
    /\ signal_csv = [t \in 1..2 |-> Absent]
    /\ latest_csv = [t \in 1..2 |-> Absent]
    /\ all_latest_signals = <<>>
    /\ snapshot = Absent
    /\ extract_success = "unset"
    /\ pos = 1
    /\ pcMain = "signals"

\* a run over one instrument after an earlier run: the earlier run has left
\* its combined snapshot and the instrument's signal file, the price file
\* and the files of Result/ are gone, and the fetch of this run may fail
InitStale ==
    /\ IdleSig /\ IdleRci /\ IdleIch /\ FreshResults
    /\ blocked = {}
    /\ csv_files = <<>>
    /\ charts_only = FALSE
    /\ company_list \in {Roster(1, dtype) : dtype \in TickerDtypes}
    /\ fetch_log = <<>>
    /\ tickers = <<>>
    /\ yf \in [1..1 -> YfOutcomes]
    /\ price_csv = [t \in 1..1 |-> Absent]
    /\ stock_data = [t \in 1..1 |-> "unset"]
    /\ results = [t \in 1..1 |-> "unset"]
    /\ latest_csv = [t \in 1..1 |-> Absent]
    /\ all_latest_signals = <<>>
    /\ \E earlier \in TrendFiles \cup DriftFiles :
          \E r \in process_data_for_ticker(earlier, 1) :
              /\ r.success
              /\ signal_csv = [t \in 1..1 |-> Table(r.signal_df)]
              /\ snapshot = Table(<<r.latest_data>>)
    /\ extract_success = "unset"
    /\ pos = 0
    /\ pcMain = "start"

\* main(), lines 155-198: charts and posting, then return 0
ChartsAndPost ==
    /\ pcMain = "charts"
    /\ pcMain' = "return_0"
    /\ UNCHANGED <<charts_only, company_list, fetch_log, tickers, yf, price_csv, stock_data, results,
                   signal_csv, latest_csv, all_latest_signals, snapshot,
                   extract_success, pos, outVars, sigVars, rciVars, ichVars, extVars>>

(***************************************************************************)
(* upload_image_to_wordpress (StockSignal/Upload_WardPress.py).            *)
(***************************************************************************)
\* for attempt in range(5)
UploadAttempts == 5

\* the statuses the media endpoint answers with in the model
OtherStatuses == {400, 401, 404, 413}
SourceUrls == {"/uploads/chart.png", "/uploads/chart-1.png"}

\* what one requests.post call does: it returns a response, whose JSON body
\* carries source_url when the media item was created, or it raises
PostOutcomes ==
    [kind : {"response"}, status_code : {200, 201}, source_url : SourceUrls]
        \cup [kind : {"response"}, status_code : {403, 429, 500, 502, 503} \cup OtherStatuses,
              source_url : {"None"}]
        \cup {[kind |-> "raises"]}

\* if resp.status_code in (200, 201)
uploaded(status_code) == status_code \in {200, 201}

\* if resp.status_code in (403, 429, 500, 502, 503)
retryable_always(status_code) == TRUE
retryable(status_code) == status_code \in {403, 429, 500, 502, 503}

\* time.sleep(2 + attempt * 2)
upload_sleep(a) == 2 + a * 2

\* one pass of the loop body: the POST and what follows from its status.
\* attempt is the index of the pass to come, so that the loop is over when
\* it reaches UploadAttempts; an exception ends the function in its handler
PostImage ==
    /\ pcUpload = "loop"
    /\ attempt < UploadAttempts
    /\ \E resp \in PostOutcomes :
          /\ responses' = Append(responses, resp)
          /\ IF resp.kind = "raises"
             THEN /\ upload_result' = "None"
                  /\ pcUpload' = "returned"
                  /\ UNCHANGED <<attempt, sleeps>>
             ELSE IF uploaded(resp.status_code)
             THEN /\ upload_result' = resp.source_url
                  /\ pcUpload' = "returned"
                  /\ UNCHANGED <<attempt, sleeps>>
             ELSE IF retryable(resp.status_code)
             THEN /\ sleeps' = Append(sleeps, upload_sleep(attempt))
                  /\ attempt' = attempt + 1
                  /\ pcUpload' = IF attempt + 1 < UploadAttempts THEN "loop" ELSE "failed"
                  /\ UNCHANGED upload_result
             ELSE /\ pcUpload' = "failed"
                  /\ UNCHANGED <<attempt, sleeps, upload_result>>
    /\ UNCHANGED <<sigVars, rciVars, batchVars, ichVars, breakVars, wickVars,
                   crossVars, runVars>>

\* after the loop: print(f"画像アップロード失敗: ..."); return None
UploadFailed ==
    /\ pcUpload = "failed"
    /\ upload_result' = "None"
    /\ pcUpload' = "returned"
    /\ UNCHANGED <<attempt, responses, sleeps>>
    /\ UNCHANGED <<sigVars, rciVars, batchVars, ichVars, breakVars, wickVars,
                   crossVars, runVars>>

InitUpload ==
    /\ IdleSig /\ IdleRci /\ IdleBatch /\ IdleIch
    /\ IdleBreak /\ IdleWick /\ IdleCross /\ IdleRun
    /\ attempt = 0
    /\ responses = <<>>
    /\ sleeps = <<>>
    /\ upload_result = "unset"
    /\ pcUpload = "loop"

(***************************************************************************)
(* Specifications.                                                         *)
(***************************************************************************)
vars == <<sigVars, rciVars, batchVars, ichVars, extVars>>

NextSig == CallMacdRsi \/ CallMacdRci \/ CallBbMacd

SpecSignal == InitSig /\ [][NextSig]_vars

NextRci == RciStep

SpecRci == InitRci /\ [][NextRci]_vars

NextBatch ==
    \/ LoadCompanyList \/ FetchTicker \/ ProcessTicker
    \/ CombineLatest \/ ExtractSignals \/ IdentifyBreakouts
    \/ ExtractStrongBuyingTrend \/ ExtractStrongSellingTrend \/ ExtractPushMark
    \/ ExtractBbMacd \/ ExtractIchimoku
    \/ ChartsAndPost

SpecBatch == InitBatch /\ [][NextBatch]_vars

SpecStale == InitStale /\ [][NextBatch]_vars

NextTrend ==
    \/ ProcessTicker \/ CombineLatest \/ ExtractSignals \/ IdentifyBreakouts
    \/ ExtractStrongBuyingTrend \/ ExtractStrongSellingTrend \/ ExtractPushMark
    \/ ExtractBbMacd \/ ExtractIchimoku
    \/ ChartsAndPost

SpecTrend == InitTrend /\ [][NextTrend]_vars

NextBreakout == IdentifyRangeBreakouts

SpecBreakout == InitBreakout /\ [][NextBreakout]_vars

NextRun == BackupPreviousResults \/ IdentifyRangeBreakouts \/ MarkConsecutive \/ StartRun

SpecRun == InitRun /\ [][NextRun]_vars

NextWick == ExtractSignalTables \/ ExtractSignalTablesRoot

SpecWick == InitWick /\ [][NextWick]_vars

NextIchimoku ==
    \/ TenkanSen \/ KijunSen \/ SenkouSpanA \/ SenkouSpanB \/ ChikouSpan
    \/ CloudJudge \/ Judge \/ SanYaku

SpecIchimoku == InitIchimoku /\ [][NextIchimoku]_vars

SpecCloud == InitCloud /\ [][CloudJudge]_vars

NextSanyaku == NextIchimoku \/ SanYakuRoot \/ ExtractSanyaku

SpecSanyaku == InitSanyaku /\ [][NextSanyaku]_vars

NextCross == NextIchimoku \/ ExtractIchimokuCross

SpecCross == InitCross /\ [][NextCross]_vars

SpecAll == InitAll /\ [][NextTrend]_vars

NextUpload == PostImage \/ UploadFailed

\* every requests.post call returns or raises, and every sleep ends
SpecUpload == InitUpload /\ [][NextUpload]_vars /\ WF_vars(NextUpload)

(***************************************************************************)
(* Claims about the signal classifier (checked under SpecSignal).          *)
(***************************************************************************)
\* rule has been applied to df
Ran(rule) == signals[rule] # NotRun
\* the label rule wrote on row i
Label(rule, i) == signals[rule].col[i]
\* rule was applied to a table holding every column it requires
RanOn(rule, required) ==
    Ran(rule) /\ ~signals[rule].raised /\ required \subseteq columns

\* C3: on every row the MACD+RSI Buy condition (MACD > MACD_Signal, RSI_short >
\* RSI_long, RSI_long <= 40) and Sell condition (MACD < MACD_Signal, RSI_short
\* < RSI_long, RSI_long >= 60) are never both true, a row satisfying Buy keeps
\* Buy after the Sell assignment, and the field is Buy, Sell or empty
\* according to which condition holds.
C3_MacdRsiExclusive ==
    RanOn("MACD-RSI", MacdRsiRequired) =>
        \A i \in 1..Len(df) :
            LET r == df[i]
                buy == /\ Gt(r["MACD"], r["MACD_Signal"])
                       /\ Gt(r["RSI9"], r["RSI14"])
                       /\ Le(r["RSI14"], 40)
                sell == /\ Lt(r["MACD"], r["MACD_Signal"])
                        /\ Lt(r["RSI9"], r["RSI14"])
                        /\ Ge(r["RSI14"], 60)
            IN  /\ ~(buy /\ sell)
                /\ Label("MACD-RSI", i) \in {"Buy", "Sell", ""}
                /\ buy <=> Label("MACD-RSI", i) = "Buy"
                /\ sell <=> Label("MACD-RSI", i) = "Sell"

\* a row with RSI_long exactly 40 labelled Buy
C3_Witness ==
    /\ RanOn("MACD-RSI", MacdRsiRequired)
    /\ \E i \in 1..Len(df) :
          df[i]["RSI14"] = 40 /\ Label("MACD-RSI", i) = "Buy"

\* C4: MACD+RCI labels bar i Buy exactly when, among the five bars i-4..i,
\* some bar has RCI_long <= -80 and a later bar of the window has RCI_long >
\* -80, and at bar i MACD > MACD_Signal and RCI_short >= 50 (Sell: >= 80 then
\* < 80, MACD < MACD_Signal, RCI_short <= -50); so a cross between bars j and
\* j+1 gives Buy at bar j+3 when the current-bar conditions hold there, and a
\* Buy at bar i rests on a cross completed at or before bar i.
C4_MacdRciWindow ==
    RanOn("MACD-RCI", MacdRciRequired) =>
        LET n == Len(df)
            rl(i) == df[i]["RCI26"]
            win(i) == {a \in (i - 4)..i : a >= 1}
            up(i) == \E a \in win(i) : \E b \in win(i) :
                        a < b /\ Le(rl(a), -80) /\ Gt(rl(b), -80)
            down(i) == \E a \in win(i) : \E b \in win(i) :
                        a < b /\ Ge(rl(a), 80) /\ Lt(rl(b), 80)
            buyNow(i) == Gt(df[i]["MACD"], df[i]["MACD_Signal"]) /\ Ge(df[i]["RCI9"], 50)
            sellNow(i) == Lt(df[i]["MACD"], df[i]["MACD_Signal"]) /\ Le(df[i]["RCI9"], -50)
        IN  /\ \A i \in 1..n :
                  /\ Label("MACD-RCI", i) = "Buy" <=> (up(i) /\ buyNow(i))
                  /\ Label("MACD-RCI", i) = "Sell" <=> (down(i) /\ sellNow(i))
            /\ \A j \in 1..(n - 3) :
                  (Le(rl(j), -80) /\ Gt(rl(j + 1), -80) /\ buyNow(j + 3))
                      => Label("MACD-RCI", j + 3) = "Buy"
            /\ \A i \in 1..n :
                  Label("MACD-RCI", i) = "Buy" =>
                      \E j \in 1..(i - 1) : Le(rl(j), -80) /\ Gt(rl(j + 1), -80)

\* RCI_long crosses -80 between bars j and j+1 and nowhere else, and the
\* current-bar conditions hold at bars j+4 and j+5: bar j+4, whose five bars
\* begin at j, is labelled Buy, and bar j+5, whose five bars begin after the
\* cross, is not
C4_Witness ==
    /\ RanOn("MACD-RCI", MacdRciRequired)
    /\ Len(df) >= 6
    /\ LET n == Len(df)
       IN  /\ df[n - 5]["RCI26"] = -80
           /\ \A i \in (n - 4)..n : df[i]["RCI26"] = 0
           /\ \A i \in {n - 1, n} :
                  Gt(df[i]["MACD"], df[i]["MACD_Signal"]) /\ Ge(df[i]["RCI9"], 50)
           /\ Label("MACD-RCI", n - 1) = "Buy"
           /\ Label("MACD-RCI", n) = ""

\* RCI_long crosses -80 between bars j and j+1, nowhere else in the window,
\* and bar j+3, the newest, is labelled Buy
C4_BuyThreeBarsOn ==
    /\ RanOn("MACD-RCI", MacdRciRequired)
    /\ Len(df) >= 5
    /\ LET n == Len(df)
       IN  /\ df[n - 4]["RCI26"] = 0
           /\ df[n - 3]["RCI26"] = -80
           /\ df[n - 2]["RCI26"] = 0
           /\ df[n - 1]["RCI26"] = 0
           /\ df[n]["RCI26"] = 0
           /\ Label("MACD-RCI", n) = "Buy"

\* the mirror: RCI_long falls through 80 five bars before the newest bar;
\* the bar before the newest is labelled Sell and the newest is not
C4_SellWindowEnds ==
    /\ RanOn("MACD-RCI", MacdRciRequired)
    /\ Len(df) >= 6
    /\ LET n == Len(df)
       IN  /\ df[n - 5]["RCI26"] = 80
           /\ \A i \in (n - 4)..n : df[i]["RCI26"] = 0
           /\ \A i \in {n - 1, n} :
                  Lt(df[i]["MACD"], df[i]["MACD_Signal"]) /\ Le(df[i]["RCI9"], -50)
           /\ Label("MACD-RCI", n - 1) = "Sell"
           /\ Label("MACD-RCI", n) = ""

\* C5: BB+MACD labels bar i Buy exactly when the bar has two predecessors,
\* its six inputs are defined, close > BB_Middle, MACD > MACD_Signal and two
\* bars back MACD < MACD_Signal; Sell exactly when the three mirrored strict
\* inequalities hold; every other bar stays empty.
C5_BbMacdRule ==
    RanOn("BB-MACD", BbMacdRequired) =>
        \A i \in 1..Len(df) :
            LET r == df[i]
                defined == /\ i >= 3
                           /\ ~isna(r["Close"]) /\ ~isna(r["BB_Middle"])
                           /\ ~isna(r["MACD"]) /\ ~isna(r["MACD_Signal"])
                           /\ ~isna(df[i - 2]["MACD"])
                           /\ ~isna(df[i - 2]["MACD_Signal"])
                buy == /\ defined
                       /\ r["Close"] > r["BB_Middle"]
                       /\ r["MACD"] > r["MACD_Signal"]
                       /\ df[i - 2]["MACD"] < df[i - 2]["MACD_Signal"]
                sell == /\ defined
                        /\ r["Close"] < r["BB_Middle"]
                        /\ r["MACD"] < r["MACD_Signal"]
                        /\ df[i - 2]["MACD"] > df[i - 2]["MACD_Signal"]
            IN  Label("BB-MACD", i) =
                    IF buy THEN "Buy" ELSE IF sell THEN "Sell" ELSE ""

\* a bar labelled Sell by BB+MACD
C5_Witness ==
    /\ RanOn("BB-MACD", BbMacdRequired)
    /\ Len(df) >= 3
    /\ Label("BB-MACD", Len(df)) = "Sell"

\* a MACD crossover on bar i itself, with close on the matching side of the
\* middle band
Lag0Bullish(i) ==
    /\ i >= 2
    /\ Lt(df[i - 1]["MACD"], df[i - 1]["MACD_Signal"])
    /\ Gt(df[i]["MACD"], df[i]["MACD_Signal"])
    /\ Gt(df[i]["Close"], df[i]["BB_Middle"])
Lag0Bearish(i) ==
    /\ i >= 2
    /\ Gt(df[i - 1]["MACD"], df[i - 1]["MACD_Signal"])
    /\ Lt(df[i]["MACD"], df[i]["MACD_Signal"])
    /\ Lt(df[i]["Close"], df[i]["BB_Middle"])

\* C6 as stated: a lag-0 bullish crossover with close > BB_Middle makes
\* BB+MACD label bar i Buy whatever the MACD/Signal order at bar i-2 (and the
\* mirrored bearish crossover with close below the band gives Sell).
C6_Lag0AlwaysFires ==
    RanOn("BB-MACD", BbMacdRequired) =>
        \A i \in 1..Len(df) :
            /\ Lag0Bullish(i) => Label("BB-MACD", i) = "Buy"
            /\ Lag0Bearish(i) => Label("BB-MACD", i) = "Sell"

\* C6 amended: on a bar with a lag-0 bullish crossover and close > BB_Middle,
\* BB+MACD writes Buy only if bar i-2 exists and had MACD < MACD_Signal, and
\* otherwise leaves the bar empty; the order at bar i-1 plays no part
\* (mirrored for Sell).
C6_Lag0NeedsLag2 ==
    RanOn("BB-MACD", BbMacdRequired) =>
        \A i \in 1..Len(df) :
            /\ Lag0Bullish(i) =>
                  Label("BB-MACD", i) =
                      IF i >= 3 /\ Lt(df[i - 2]["MACD"], df[i - 2]["MACD_Signal"])
                      THEN "Buy" ELSE ""
            /\ Lag0Bearish(i) =>
                  Label("BB-MACD", i) =
                      IF i >= 3 /\ Gt(df[i - 2]["MACD"], df[i - 2]["MACD_Signal"])
                      THEN "Sell" ELSE ""

\* a lag-0 bullish crossover above the middle band, MACD above its signal two
\* bars back, and the bar left empty
C6_Witness ==
    /\ RanOn("BB-MACD", BbMacdRequired)
    /\ \E i \in 3..Len(df) :
          /\ Lag0Bullish(i)
          /\ Gt(df[i - 2]["MACD"], df[i - 2]["MACD_Signal"])
          /\ Label("BB-MACD", i) = ""

\* the columns df held before the classifiers added theirs
InputColumns == columns \ Rules

\* C7: a classifier applied to a table that lacks one of its required columns
\* returns without raising, its signal column empty on every row.
C7_MissingColumnsEmpty ==
    /\ pcSig # "raised"
    /\ \A rule \in Rules :
          LET required == CASE rule = "MACD-RSI" -> MacdRsiRequired
                            [] rule = "MACD-RCI" -> MacdRciRequired
                            [] OTHER -> BbMacdRequired
          IN  (Ran(rule) /\ ~(required \subseteq InputColumns)) =>
                  /\ ~signals[rule].raised
                  /\ signals[rule].col = [i \in 1..Len(df) |-> ""]

\* all three classifiers have run on the table that would fire Buy in each,
\* with MACD absent, and every signal column is empty
C7_Witness ==
    /\ pcSig = "done"
    /\ df = FiringTable
    /\ "MACD" \notin columns
    /\ \A rule \in Rules : signals[rule].col = [i \in 1..Len(df) |-> ""]


(***************************************************************************)
(* Claims about the batch run (checked under SpecBatch).                   *)
(***************************************************************************)
\* a row computed from `bars` bars of history has no moving average whose
\* window is longer than that
WindowMissingIsNaN(row, bars) ==
    \A k \in 1..Len(MA_PERIODS) :
        bars < MA_PERIODS[k] => isna(row[MAName(MA_PERIODS[k])])

\* C1: in the full indicator history, in the latest-bar extract and in the
\* combined snapshot, an indicator whose trailing window is not yet available
\* is NaN and never a default number such as 0.
C1_NaNNeverReplaced ==
    /\ \A t \in DOMAIN signal_csv :
          signal_csv[t].kind = "table" =>
              \A i \in 1..Len(signal_csv[t].rows) :
                  WindowMissingIsNaN(signal_csv[t].rows[i], i)
    /\ \A t \in DOMAIN latest_csv :
          latest_csv[t].kind = "table" =>
              WindowMissingIsNaN(latest_csv[t].rows[1], Len(signal_csv[t].rows))
    /\ snapshot.kind = "table" =>
          \A j \in 1..Len(snapshot.rows) :
              WindowMissingIsNaN(snapshot.rows[j],
                                 Len(signal_csv[snapshot.rows[j]["Ticker"]].rows))

FullRun == ~charts_only /\ tickers # <<>>

\* the positions of main() from line 78 on, in the order of main()
AfterCombine ==
    {"extract", "breakout", "strong_buying", "strong_selling", "push_mark",
     "bb_macd", "ichimoku", "charts", "return_0"}

AfterExtract == AfterCombine \ {"extract"}

\* the fetch of instrument t in this run gives a history: the ticker is a
\* str, so that line 69 passes, and stock.history() answers with bars
FetchSucceeds(t) == ~endswith_raises(company_list) /\ yf[t].kind = "hist"

\* C2: whatever subset of the universe fails to fetch or to compute, be it
\* one instrument or, with tickers read as numbers, every one of them, every
\* instrument is fetched and processed with the outcome its own inputs give,
\* the run reaches the snapshot step and the extraction, and it ends with
\* status 0: no single failure ends the batch.
C2_FailureNeverEndsBatch ==
    /\ pcMain = "return_1" => tickers = <<>>
    /\ pcMain \in {"fetch", "signals"} => pos \in 1..Len(tickers)
    /\ pcMain \in {"idle", "start", "fetch", "signals", "combine", "return_1"}
                     \cup AfterCombine
    /\ FullRun /\ pcMain \in {"signals", "combine"} \cup AfterCombine =>
          \A t \in DOMAIN yf :
              /\ stock_data[t] = (IF FetchSucceeds(t) THEN "hist" ELSE "None")
              /\ FetchSucceeds(t) => price_csv[t] = Frame(yf[t].Close)
    /\ FullRun /\ pcMain \in {"combine"} \cup AfterCombine =>
          \A t \in DOMAIN results :
              /\ results[t] # "unset"
              /\ results[t] = "True" <=> price_csv[t].kind = "frame"
              /\ results[t] = "True" <=> signal_csv[t].kind = "table"
    /\ FullRun /\ pcMain \in AfterCombine =>
          /\ (\E t \in DOMAIN results : results[t] = "True") <=> snapshot.kind = "table"
          /\ snapshot.kind = "table" =>
                {snapshot.rows[j]["Ticker"] : j \in 1..Len(snapshot.rows)}
                    = {t \in DOMAIN results : results[t] = "True"}
    /\ FullRun /\ pcMain \in AfterExtract =>
          extract_success = (IF snapshot.kind = "table" THEN "True" ELSE "False")

\* a finished run over text tickers in which the first instrument failed both
\* to fetch and to compute, and the second one was fetched and made it into
\* the snapshot
C2_Witness ==
    /\ pcMain = "return_0"
    /\ Len(tickers) >= 2
    /\ ~endswith_raises(company_list)
    /\ yf[1].kind = "exception" /\ price_csv[1].kind = "unreadable"
    /\ stock_data[1] = "None" /\ stock_data[2] = "hist"
    /\ results[1] = "False" /\ results[2] = "True"
    /\ snapshot.kind = "table" /\ extract_success = "True"

\* a finished run over tickers read as numbers: every fetch raised at line 69
\* and wrote nothing, an instrument with a price file of an earlier run was
\* still processed, and the run ended with status 0
C2_NumericTickers ==
    /\ pcMain = "return_0"
    /\ Len(tickers) >= 2
    /\ endswith_raises(company_list)
    /\ yf[1].kind = "hist" /\ stock_data[1] = "None" /\ price_csv[1] = Absent
    /\ Len(fetch_log) = Len(tickers)
    /\ results[1] = "False" /\ results[2] = "True"

(***************************************************************************)
(* Claims about the RCI (checked under SpecRci).                           *)
(***************************************************************************)
\* C8: for every window length p >= 2 and every close series, equal closes
\* included, the price ranks are a permutation of 1..p and every defined RCI
\* value lies between -100 and 100.
C8_RciBounded ==
    /\ price_ranks # <<>> =>
          {price_ranks[j] : j \in 1..Len(price_ranks)} = 1..period
    /\ \A i \in 1..Len(rci) :
          ~RciIsNaN(rci[i]) =>
              /\ rci[i].den > 0
              /\ -100 * rci[i].den <= rci[i].num
              /\ rci[i].num <= 100 * rci[i].den

\* a window of equal closes whose RCI came out as -100
C8_Witness ==
    /\ rciPos = Len(close)
    /\ rciPos >= period
    /\ \A k \in 1..Len(close) : close[k] = close[1]
    /\ rci[rciPos].num = -100 * rci[rciPos].den

(***************************************************************************)
(* Claims about the Ichimoku computation (checked under SpecIchimoku).     *)
(***************************************************************************)
\* C9: two price series that agree on high, low and close at every index
\* <= i have identical Senkou Span A and B values at index i + displacement;
\* changing bars after index i never changes them.
C9_SenkouNoLookAhead ==
    \A t \in DOMAIN ich[1].senkou_span_a :
        t - displacement <= agree =>
            /\ ich[1].senkou_span_a[t] = ich[2].senkou_span_a[t]
            /\ ich[1].senkou_span_b[t] = ich[2].senkou_span_b[t]

\* both Senkou spans defined at an index the claim covers, while the series
\* differ from bar agree + 1 on and a later Senkou value differs
C9_Witness ==
    /\ pcIch = "done"
    /\ agree + 1 <= ich[1].data_length - 1
    /\ ich[1].high_values[agree + 1] # ich[2].high_values[agree + 1]
    /\ \E t \in DOMAIN ich[1].senkou_span_b :
          /\ t - displacement <= agree
          /\ ~isna(ich[1].senkou_span_a[t]) /\ ~isna(ich[1].senkou_span_b[t])
    /\ \E t \in DOMAIN ich[1].senkou_span_b :
          /\ ich[1].senkou_span_a[t] # ich[2].senkou_span_a[t]
          /\ ich[1].senkou_span_b[t] # ich[2].senkou_span_b[t]

\* C10: the Senkou value computed at bar i is stored at index i + displacement
\* and only when that index is inside the series; whatever the length, no
\* index outside 0..length-1 is read or written, and values whose target lies
\* beyond the end are dropped.
C10_SenkouInRange ==
    /\ pcIch # "raised"
    /\ \A k \in DOMAIN ich :
        LET r == ich[k]
            n == r.data_length
        IN  /\ ~r.raised
            /\ r.touched \subseteq 0..(n - 1)
            /\ DOMAIN r.senkou_span_a = 0..(n - 1)
            /\ DOMAIN r.senkou_span_b = 0..(n - 1)
            /\ pcIch \in {"senkou_b", "chikou", "cloud", "done"} =>
                  \A t \in 0..(n - 1) :
                      r.senkou_span_a[t] =
                          IF t - displacement >= tenkan_period - 1
                          THEN Mid(r.tenkan_sen[t - displacement], r.kijun_sen[t - displacement])
                          ELSE NaN
            /\ pcIch \in {"chikou", "cloud", "done"} =>
                  \A t \in 0..(n - 1) :
                      r.senkou_span_b[t] =
                          IF t - displacement >= senkou_span_b_period - 1
                          THEN PeriodMid(r, senkou_span_b_period, t - displacement)
                          ELSE NaN

\* a finished series long enough for Senkou B to be stored on its last bar,
\* whose newest bars compute values that have no index to go to; and the
\* shorter-than-any-window case also finishes
C10_Witness ==
    /\ pcIch = "done"
    /\ ich[1].data_length = senkou_span_b_period + displacement
    /\ ~isna(ich[1].senkou_span_b[ich[1].data_length - 1])
    /\ isna(ich[1].senkou_span_b[ich[1].data_length - 2])
    /\ ~isna(ich[1].tenkan_sen[ich[1].data_length - 1])
(***************************************************************************)
(* Claims about the cloud judgement (checked under SpecCloud).             *)
(***************************************************************************)
\* the number of cloud flags set on bar i of run r
FlagCount(r, i) ==
    (IF r.above_cloud[i] THEN 1 ELSE 0) + (IF r.below_cloud[i] THEN 1 ELSE 0)
        + (IF r.in_cloud[i] THEN 1 ELSE 0)

\* C11: on every bar, when both Senkou spans are defined exactly one of the
\* flags above / below / in cloud is set (above iff close > both spans, below
\* iff close < both spans, in-cloud otherwise); when either span is undefined
\* all three flags are false.
C11_CloudFlags ==
    pcIch \in {"judge", "sanyaku", "done"} =>
        \A k \in DOMAIN ich : \A i \in 0..(ich[k].data_length - 1) :
            LET r == ich[k]
                c == r.close_values[i]
                a == r.senkou_span_a[i]
                b == r.senkou_span_b[i]
            IN  IF a # NaN /\ b # NaN
                THEN /\ FlagCount(r, i) = 1
                     /\ r.above_cloud[i] <=> (c > a /\ c > b)
                     /\ r.below_cloud[i] <=> (c < a /\ c < b)
                     /\ r.in_cloud[i] <=> ~(c > a /\ c > b) /\ ~(c < a /\ c < b)
                ELSE FlagCount(r, i) = 0

\* two judged bars: one between two different spans (in the cloud), one with
\* Span B still undefined (no flag)
C11_Witness ==
    /\ pcIch = "judge"
    /\ ich[1].data_length = 2
    /\ ich[1].senkou_span_a[1] # ich[1].senkou_span_b[1]
    /\ ich[1].in_cloud[1]
    /\ ich[1].senkou_span_a[0] # NaN /\ ich[1].senkou_span_b[0] = NaN
(***************************************************************************)
(* Claims about the three-phase reversal (checked under SpecSanyaku).      *)
(***************************************************************************)
LatestBar(r) == r.data_length - 1

\* the three-condition state holds on the latest bar, in either direction
StateBullish(r) ==
    /\ r.above_cloud[LatestBar(r)] /\ r.chikou_above_price[LatestBar(r)]
    /\ r.tenkan_above_kijun[LatestBar(r)]
StateBearish(r) ==
    /\ r.below_cloud[LatestBar(r)] /\ r.chikou_below_price[LatestBar(r)]
    /\ r.tenkan_below_kijun[LatestBar(r)]

\* C12: an instrument carries the three-phase label on its latest bar, or is
\* listed in a three-phase bucket, only if the state holds on that bar and
\* Tenkan crossed Kijun in the matching direction between the previous and
\* the current bar.  Read when either revision of calculate_ichimoku has
\* run, the StockSignal one followed by extract_sanyaku_signals.
C12_NeedsFreshCross ==
    pcIch \in {"extracted", "done_root"} =>
        \A k \in DOMAIN ich :
            LET r == ich[k]
            IN  /\ (r.Ichimoku_SanYaku[LatestBar(r)] = "SanYaku_Kouten"
                        \/ "SanYaku_Kouten" \in r.listed)
                    => StateBullish(r) /\ tenkan_uenuke(r, LatestBar(r))
                /\ (r.Ichimoku_SanYaku[LatestBar(r)] = "SanYaku_Anten"
                        \/ "SanYaku_Anten" \in r.listed)
                    => StateBearish(r) /\ tenkan_shitanuke(r, LatestBar(r))

\* the root revision does as C12 says: its label on the latest bar is there
\* exactly when the state holds and the matching cross is fresh
C12_RootNeedsFreshCross ==
    pcIch = "done_root" =>
        \A k \in DOMAIN ich :
            LET r == ich[k]
                i == LatestBar(r)
            IN  /\ r.Ichimoku_SanYaku[i] = "SanYaku_Kouten"
                      <=> StateBullish(r) /\ ~LinesUndefined(r, i) /\ tenkan_uenuke(r, i)
                /\ r.Ichimoku_SanYaku[i] = "SanYaku_Anten"
                      <=> StateBearish(r) /\ ~LinesUndefined(r, i) /\ tenkan_shitanuke(r, i)
                /\ r.listed = {}

\* the StockSignal revision does not: its label and its buckets follow the
\* state alone (the label needs Tenkan and Kijun defined on the previous and
\* the current bar); a fresh cross decides only whether the judgement date is
\* recorded.
C12_StateAloneQualifies ==
    pcIch = "extracted" =>
        \A k \in DOMAIN ich :
            LET r == ich[k]
                i == LatestBar(r)
            IN  /\ "SanYaku_Kouten" \in r.listed <=> StateBullish(r)
                /\ "SanYaku_Anten" \in r.listed <=> StateBearish(r)
                /\ r.Ichimoku_SanYaku[i] = "SanYaku_Kouten"
                      <=> StateBullish(r) /\ ~LinesUndefined(r, i)
                /\ r.Ichimoku_SanYaku[i] = "SanYaku_Anten"
                      <=> StateBearish(r) /\ ~LinesUndefined(r, i)
                /\ r.Ichimoku_JudgeDate[i] # NoDate
                      <=> \/ StateBullish(r) /\ tenkan_uenuke(r, i)
                          \/ StateBearish(r) /\ tenkan_shitanuke(r, i)

\* the StockSignal revision: an instrument listed and labelled bullish on a
\* latest bar without a cross, next to one listed bearish
C12_LabelledWithoutCross ==
    /\ pcIch = "extracted"
    /\ "SanYaku_Kouten" \in ich[1].listed
    /\ ich[1].Ichimoku_SanYaku[LatestBar(ich[1])] = "SanYaku_Kouten"
    /\ ~tenkan_uenuke(ich[1], LatestBar(ich[1]))
    /\ ich[1].Ichimoku_JudgeDate[LatestBar(ich[1])] = NoDate
    /\ "SanYaku_Anten" \in ich[2].listed

\* the root revision on the same series: the state holds on the latest bar
\* without a cross, and the bar carries no label
C12_RootUnlabelled ==
    /\ pcIch = "done_root"
    /\ StateBullish(ich[1]) /\ ~tenkan_uenuke(ich[1], LatestBar(ich[1]))
    /\ ich[1].Ichimoku_SanYaku[LatestBar(ich[1])] = ""

\* the root revision on a series whose cross falls on the latest bar while
\* the state holds: the bar is labelled
C12_RootLabelled ==
    /\ pcIch = "done_root"
    /\ ich[1].Ichimoku_SanYaku[LatestBar(ich[1])] = "SanYaku_Kouten"
    /\ ich[2].Ichimoku_SanYaku[LatestBar(ich[2])] = "SanYaku_Anten"

(***************************************************************************)
(* Claims about the strong-trend buckets (checked under SpecTrend).        *)
(***************************************************************************)
\* the tickers of a result file
TickersOf(file) ==
    IF file.kind = "table" THEN {file.rows[k]["Ticker"] : k \in 1..Len(file.rows)} ELSE {}

\* both strong-trend extractors have run
TrendExtracted == pcMain \in {"push_mark", "bb_macd", "ichimoku", "charts", "return_0"}

\* the instrument has a history, of at least n bars
HasBars(t, n) == signal_csv[t].kind = "table" /\ Len(signal_csv[t].rows) >= n

\* the bar of the instrument's own history, k bars before the latest
BarBefore(t, k) == signal_csv[t].rows[Len(signal_csv[t].rows) - k]

\* the claimed predicate of the strong-bullish bucket, on the instrument's
\* own history (an undefined average satisfies no comparison)
StrongBullish(t) ==
    /\ HasBars(t, 2)
    /\ LET cur == BarBefore(t, 0)
           prev == BarBefore(t, 1)
       IN  /\ Gt(cur["MA5"], cur["MA25"]) /\ Gt(cur["MA25"], cur["MA75"])
           /\ Gt(cur["Close"], cur["MA5"])
           /\ cur["Volume"] >= 100000
           /\ Gt(Sub(cur["MA5"], cur["MA25"]), Sub(prev["MA5"], prev["MA25"]))

\* the mirror for the strong-bearish bucket
StrongBearish(t) ==
    /\ HasBars(t, 2)
    /\ LET cur == BarBefore(t, 0)
           prev == BarBefore(t, 1)
       IN  /\ Lt(cur["MA5"], cur["MA25"]) /\ Lt(cur["MA25"], cur["MA75"])
           /\ Lt(cur["Close"], cur["MA5"])
           /\ cur["Volume"] >= 100000
           /\ Gt(Sub(cur["MA25"], cur["MA5"]), Sub(prev["MA25"], prev["MA5"]))

\* C13: an instrument is in the strong-bullish bucket if and only if, on its
\* latest bar, short MA > mid MA > long MA, close > short MA, volume >=
\* 100,000 and the gap short MA - mid MA is strictly greater than on the
\* preceding bar of its own history; the strong-bearish bucket is the mirror.
C13_StrongTrendIff ==
    TrendExtracted =>
        \A t \in DOMAIN signal_csv :
            /\ (t \in TickersOf(strong_buying_trend)) <=> StrongBullish(t)
            /\ (t \in TickersOf(strong_selling_trend)) <=> StrongBearish(t)

\* the close series of the instrument rises strictly and every bar has a
\* volume of 200,000
RisingFlatVolume(t) ==
    /\ HasBars(t, 1)
    /\ \A k \in 1..Len(signal_csv[t].rows) :
        /\ signal_csv[t].rows[k]["Volume"] = FlatVolume
        /\ k > 1 => signal_csv[t].rows[k]["Close"] > signal_csv[t].rows[k - 1]["Close"]

\* C14: with a strictly rising close and a constant volume of 200,000, an
\* instrument with fewer than 75 bars of history (long MA undefined) is not
\* in the strong-bullish bucket.
C14_ShortHistoryExcluded ==
    TrendExtracted =>
        \A t \in DOMAIN signal_csv :
            (RisingFlatVolume(t) /\ Len(signal_csv[t].rows) < 75)
                => t \notin TickersOf(strong_buying_trend)


\* the claimed conditions of the pullback bucket on the instrument's own
\* history: gap within 2% of the close, gap larger than on the prior bar,
\* mid MA risen by at least 0.3%, volume at least 100,000
PullbackConditions(t) ==
    /\ HasBars(t, 2)
    /\ LET cur == BarBefore(t, 0)
           prev == BarBefore(t, 1)
       IN  /\ condition1_push_mark(cur)
           /\ Gt(Sub(cur["MA5"], cur["MA25"]), Sub(prev["MA5"], prev["MA25"]))
           /\ ~isna(cur["MA25"]) /\ ~isna(prev["MA25"])
           /\ 1000 * (cur["MA25"] - prev["MA25"]) >= 3 * prev["MA25"]
           /\ cur["Volume"] >= 100000

\* C15: an instrument is listed in the pullback bucket only if the gap
\* between short and mid MA is within 2% of the latest close, the gap is
\* larger than on the prior bar, the mid MA rose by at least 0.3% against the
\* prior bar, and the latest volume is at least the minimum volume.
C15_PullbackAllFour ==
    pcMain \in {"bb_macd", "ichimoku", "charts", "return_0"} =>
        \A t \in TickersOf(push_mark) : PullbackConditions(t)


(***************************************************************************)
(* Claims about the breakout bucket (checked under SpecBreakout).          *)
(***************************************************************************)
\* the latest row of a signal file
LastRow(rows) == rows[Len(rows)]

\* the rows of the lookback window strictly before the latest bar
PriorBars(rows) ==
    {k \in 1..(Len(rows) - 1) :
        rows[k].Date < LastRow(rows).Date /\ rows[k].Date >= LastRow(rows).Date - 90}

\* the new-high test as claimed: some prior bar in the window, and the latest
\* close at or above the high of each
NewHigh(rows) ==
    /\ PriorBars(rows) # {}
    /\ \A k \in PriorBars(rows) : LastRow(rows).Close >= rows[k].High

\* the file is long enough and passes the minimum volume and the wick test
LongEnoughVolumeWick(rows) ==
    Len(rows) >= 90 /\ breakout_condition3(rows) /\ breakout_condition4(rows)

\* C16: the new-high test compares the latest close with the maximum high of
\* the strictly prior bars of the lookback window, using >=: the bar's own
\* high plays no part, equality passes, and without a prior bar in the window
\* the instrument does not qualify.
C16_NewHighPriorBars ==
    pcBreak = "done" =>
        \A t \in DOMAIN csv_files :
            /\ t \in TickersOf(Range_Brake) => NewHigh(csv_files[t])
            /\ (/\ LongEnoughVolumeWick(csv_files[t])
                /\ breakout_condition2(csv_files[t])
                /\ NewHigh(csv_files[t])) => t \in TickersOf(Range_Brake)

\* an instrument is listed whose latest close equals the prior maximum high
\* and whose own high lies above its close
C16_Witness ==
    /\ pcBreak = "done"
    /\ \E t \in TickersOf(Range_Brake) :
        /\ \E k \in PriorBars(csv_files[t]) :
               csv_files[t][k].High = LastRow(csv_files[t]).Close
        /\ LastRow(csv_files[t]).High > LastRow(csv_files[t]).Close

RECURSIVE SumVolume(_, _)
\* the volumes of the rows in S, added up
SumVolume(rows, S) ==
    IF S = {} THEN 0
    ELSE LET k == CHOOSE x \in S : TRUE
         IN  rows[k].Volume + SumVolume(rows, S \ {k})

\* the latest volume exceeds 1.5 times the mean volume of the rows in S
Surge(rows, S) ==
    S # {} /\ 2 * Cardinality(S) * LastRow(rows).Volume > 3 * SumVolume(rows, S)

\* C17 as stated: the volume-surge test takes the mean over the strictly
\* prior bars of the window, the current bar's volume left out.
C17_MeanOverPriorBars ==
    pcBreak = "done" =>
        \A t \in DOMAIN csv_files :
            (LongEnoughVolumeWick(csv_files[t]) /\ NewHigh(csv_files[t])) =>
                (t \in TickersOf(Range_Brake)
                    <=> Surge(csv_files[t], PriorBars(csv_files[t])))

\* C17 as amended: the volume-surge test requires the latest volume to exceed
\* 1.5 times the mean volume of the lookback window with the latest bar
\* included in the mean.
C17_MeanOverWindow ==
    pcBreak = "done" =>
        \A t \in DOMAIN csv_files :
            (LongEnoughVolumeWick(csv_files[t]) /\ NewHigh(csv_files[t])) =>
                (t \in TickersOf(Range_Brake)
                    <=> Surge(csv_files[t], PriorBars(csv_files[t]) \cup {Len(csv_files[t])}))

\* an instrument is listed whose volume lies between 1.5 and 1.51 times the
\* mean of the prior bars
C17_Witness ==
    /\ pcBreak = "done"
    /\ \E t \in TickersOf(Range_Brake) :
        /\ Surge(csv_files[t], PriorBars(csv_files[t]))
        /\ 100 * Cardinality(PriorBars(csv_files[t])) * LastRow(csv_files[t]).Volume
               < 151 * SumVolume(csv_files[t], PriorBars(csv_files[t]))


(***************************************************************************)
(* Claims about the Buy and Sell tables (checked under SpecWick).          *)
(***************************************************************************)
\* the snapshot row of a ticker
SnapshotOf(ticker) ==
    latest_signal.rows[CHOOSE k \in 1..Len(latest_signal.rows) :
                           latest_signal.rows[k]["Ticker"] = ticker]

ShortUpperWick(r) == 2 * r["Close"] > r["High"] + r["Low"]
ShortLowerWick(r) == 2 * r["Close"] < r["High"] + r["Low"]

\* the table of the same rule set on the other side
Opposite(name) ==
    CASE name = "macd_rsi_signal_result_buy.csv" -> "macd_rsi_signal_result_sell.csv"
      [] name = "macd_rci_signal_result_buy.csv" -> "macd_rci_signal_result_sell.csv"
      [] name = "macd_bb_signal_result_buy.csv" -> "macd_bb_signal_result_sell.csv"
      [] name = "macd_rsi_rci_signal_result_buy.csv" -> "macd_rsi_rci_signal_result_sell.csv"

\* the wick property of the tables written
WickFiltered ==
    /\ \A name \in BuyTables : \A t \in TickersOf(result_csv[name]) :
           ShortUpperWick(SnapshotOf(t))
    /\ \A name \in SignalTables \ BuyTables : \A t \in TickersOf(result_csv[name]) :
           ShortLowerWick(SnapshotOf(t))
    /\ latest_signal.kind = "table" =>
         \A k \in 1..Len(latest_signal.rows) : \A name \in BuyTables :
            LET r == latest_signal.rows[k]
                fails == \/ (\A c \in TableColumns(name) : r[c] = "Buy") /\ ~ShortUpperWick(r)
                         \/ (\A c \in TableColumns(name) : r[c] = "Sell") /\ ~ShortLowerWick(r)
            IN  fails => /\ r["Ticker"] \notin TickersOf(result_csv[name])
                         /\ r["Ticker"] \notin TickersOf(result_csv[Opposite(name)])

\* C18: every row of a Buy table has close > (high + low) / 2, every row of
\* a Sell table has close < (high + low) / 2, and an instrument whose field
\* is Buy or Sell but which fails the wick test is in neither table of that
\* rule set.
C18_WickFilter ==
    pcExtract \in {"done", "done_root"} => WickFiltered


(***************************************************************************)
(* C19: after the Ichimoku cross extraction every instrument is in at most *)
(* one of the four cross files; an instrument in a golden-cross file has   *)
(* previous Tenkan <= previous Kijun, current Tenkan > current Kijun and   *)
(* the Chikou-above-price flag on its latest bar, an instrument in a       *)
(* dead-cross file has previous Tenkan >= previous Kijun, current Tenkan   *)
(* < current Kijun and the Chikou-below-price flag; the under-cloud files  *)
(* hold only instruments whose latest bar is below the cloud and the       *)
(* upper-cloud files only instruments whose latest bar is above it.        *)
(***************************************************************************)
CrossExtracted == pcIch = "crossed"
InCrossFile(k, file) ==
    \E j \in 1..Len(ichimoku_cross[file]) : ichimoku_cross[file][j] = k
CurrentBar(k) == ich[k].data_length - 1
GoldenConfirmed(k) ==
    /\ ich[k].data_length >= 2
    /\ ich[k].tenkan_sen[CurrentBar(k) - 1] # NaN /\ ich[k].kijun_sen[CurrentBar(k) - 1] # NaN
    /\ ich[k].tenkan_sen[CurrentBar(k)] # NaN /\ ich[k].kijun_sen[CurrentBar(k)] # NaN
    /\ ich[k].tenkan_sen[CurrentBar(k) - 1] <= ich[k].kijun_sen[CurrentBar(k) - 1]
    /\ ich[k].tenkan_sen[CurrentBar(k)] > ich[k].kijun_sen[CurrentBar(k)]
    /\ ich[k].chikou_above_price[CurrentBar(k)]
DeadConfirmed(k) ==
    /\ ich[k].data_length >= 2
    /\ ich[k].tenkan_sen[CurrentBar(k) - 1] # NaN /\ ich[k].kijun_sen[CurrentBar(k) - 1] # NaN
    /\ ich[k].tenkan_sen[CurrentBar(k)] # NaN /\ ich[k].kijun_sen[CurrentBar(k)] # NaN
    /\ ich[k].tenkan_sen[CurrentBar(k) - 1] >= ich[k].kijun_sen[CurrentBar(k) - 1]
    /\ ich[k].tenkan_sen[CurrentBar(k)] < ich[k].kijun_sen[CurrentBar(k)]
    /\ ich[k].chikou_below_price[CurrentBar(k)]
C19_CrossBuckets ==
    CrossExtracted =>
        \A k \in 1..Len(ich) :
            /\ Cardinality({file \in CrossFiles : InCrossFile(k, file)}) <= 1
            /\ InCrossFile(k, "ichimoku_GC_under_cloud.csv") =>
                   GoldenConfirmed(k) /\ ich[k].below_cloud[CurrentBar(k)]
            /\ InCrossFile(k, "ichimoku_GC_upper_cloud.csv") =>
                   GoldenConfirmed(k) /\ ich[k].above_cloud[CurrentBar(k)]
            /\ InCrossFile(k, "ichimoku_DC_upper_cloud.csv") =>
                   DeadConfirmed(k) /\ ich[k].above_cloud[CurrentBar(k)]
            /\ InCrossFile(k, "ichimoku_DC_under_cloud.csv") =>
                   DeadConfirmed(k) /\ ich[k].below_cloud[CurrentBar(k)]
\* a run whose first instrument is in the golden-cross file below the cloud
\* and whose second is in the dead-cross file above it
C19_Witness ==
    /\ CrossExtracted
    /\ InCrossFile(1, "ichimoku_GC_under_cloud.csv")
    /\ InCrossFile(2, "ichimoku_DC_upper_cloud.csv")
\* runs with an instrument in the other two files
C19_UpperGolden ==
    CrossExtracted /\ InCrossFile(1, "ichimoku_GC_upper_cloud.csv")
                   /\ InCrossFile(2, "ichimoku_DC_under_cloud.csv")
\* a golden cross outside the cloud that the Chikou flag keeps out of the
\* files
C19_Unconfirmed ==
    /\ CrossExtracted
    /\ golden_cross(ich[1]) /\ ~ich[1].in_cloud[CurrentBar(1)]
    /\ \A file \in CrossFiles : ~InCrossFile(1, file)

(***************************************************************************)
(* C20: when the second of two consecutive runs over the same signal files *)
(* has marked its output, every instrument of the breakout output is among *)
(* the consecutive breakout tickers and its display name carries the       *)
(* marker.                                                                 *)
(***************************************************************************)
SecondRunMarked == pcBreak = "marked" /\ run >= 2
BreakoutOutput == IF Range_Brake.kind = "table" THEN Range_Brake.rows ELSE <<>>
C20_ConsecutiveMarked ==
    SecondRunMarked =>
        \A k \in 1..Len(BreakoutOutput) :
            /\ ToString(BreakoutOutput[k].Ticker) \in consecutive_tickers.breakout
            /\ display_names[k] = "◎" \o CompanyName(BreakoutOutput[k].Ticker)
\* the backup and the comparison do work on the files they name: an
\* instrument of Result/push_mark.csv is reported on the second run
C20_PushMarkReported ==
    /\ SecondRunMarked
    /\ consecutive_tickers.push_mark # {}
    /\ BreakoutOutput # <<>>

(***************************************************************************)
(* C21: a row of the breakout output carries the marker only if its ticker *)
(* is a consecutive hit of the breakout category, that is a member of the  *)
(* breakout file of both the previous and the current run; a consecutive   *)
(* hit of the push-mark category alone does not mark it.                   *)
(***************************************************************************)
RunMarked == pcBreak = "marked"
HasMarker(k) == display_names[k] = "◎" \o CompanyName(BreakoutOutput[k].Ticker)
C21_MarkerSameBucket ==
    RunMarked =>
        \A k \in 1..Len(BreakoutOutput) :
            HasMarker(k) =>
                ToString(BreakoutOutput[k].Ticker) \in consecutive_tickers.breakout
\* rows are also left without the marker, and rows marked through the
\* breakout category occur
C21_Unmarked ==
    RunMarked /\ \E k \in 1..Len(BreakoutOutput) : ~HasMarker(k)
C21_MarkedByBreakout ==
    RunMarked /\ \E k \in 1..Len(BreakoutOutput) :
        /\ HasMarker(k)
        /\ ToString(BreakoutOutput[k].Ticker) \in consecutive_tickers.breakout

(***************************************************************************)
(* C22: when the roster gives an empty list (no file, no Ticker column, an *)
(* unreadable file, or no rows) a run that reads it ends with status 1     *)
(* right after the load: nothing is fetched, no indicator is computed, no  *)
(* snapshot and no bucket is written.                                      *)
(***************************************************************************)
EmptyRosterRead ==
    ~charts_only /\ pcMain # "start" /\ load_company_list(company_list) = <<>>
NothingDone ==
    /\ \A t \in DOMAIN stock_data : stock_data[t] = "unset"
    /\ \A t \in DOMAIN results : results[t] = "unset"
    /\ all_latest_signals = <<>> /\ snapshot = Absent
    /\ extract_success = "unset"
    /\ strong_buying_trend = Absent /\ strong_selling_trend = Absent
    /\ push_mark = Absent /\ Range_Brake = Absent
    /\ \A name \in SignalTables : result_csv[name] = Absent
    /\ \A name \in DOMAIN bb_macd_csv : bb_macd_csv[name] = Absent
    /\ \A name \in DOMAIN sanyaku_csv : sanyaku_csv[name] = Absent
    /\ \A file \in CrossFiles : ichimoku_cross[file] = <<>>
C22_EmptyRosterStops ==
    EmptyRosterRead => pcMain = "return_1" /\ NothingDone
\* a run stopped on a roster that has rows but no Ticker column
C22_Witness ==
    /\ pcMain = "return_1"
    /\ company_list.kind = "csv" /\ "Ticker" \notin company_list.columns
\* runs stopped on a missing roster and on a roster without rows
C22_MissingOrEmpty ==
    pcMain = "return_1" /\ company_list \in {Absent, Roster(0, "object")}

(***************************************************************************)
(* C23: a run in which extract_signals found no combined snapshot does not *)
(* go on to the later steps and does not end with status 0: after the      *)
(* extractor has returned False the run is at the extractor's return or    *)
(* has ended with status 1.                                                *)
(***************************************************************************)
SnapshotReportedAbsent == extract_success = "False"
C23_MissingSnapshotAborts ==
    SnapshotReportedAbsent => pcMain \in {"breakout", "return_1"}
\* the run that ends with status 0 although the snapshot was reported absent
C23_StatusZero ==
    SnapshotReportedAbsent /\ pcMain = "return_0"

(***************************************************************************)
(* C24, as stated: for instruments a before b of the roster, b's fetch has *)
(* not begun before a's indicator computation and classification are done. *)
(***************************************************************************)
Fetched(t) == stock_data[t] # "unset"
Computed(t) == results[t] # "unset"
C24_OneAtATimeEndToEnd ==
    \A a, b \in DOMAIN stock_data :
        (a < b /\ Fetched(b)) => (Fetched(a) /\ Computed(a))
(***************************************************************************)
(* C24, amended: the run goes phase by phase.  Within the fetch phase and  *)
(* within the indicator phase the instruments are handled one at a time in *)
(* roster order, and no instrument's indicators are computed before every  *)
(* instrument has been fetched.                                            *)
(***************************************************************************)
C24_OneAtATimePerPhase ==
    \A a, b \in DOMAIN stock_data :
        /\ (a < b /\ Fetched(b)) => Fetched(a)
        /\ (a < b /\ Computed(b)) => Computed(a)
        /\ Computed(a) => Fetched(b)
\* two instruments fetched, the first computed and the second not yet
C24_Witness ==
    /\ Len(tickers) >= 2
    /\ Fetched(1) /\ Fetched(2) /\ Computed(1) /\ ~Computed(2)

(***************************************************************************)
(* C25: an instrument whose request was refused for the rate limit is      *)
(* skipped only after the request has been made again: once its fetch is   *)
(* over, stock.history() has been called for it more than once.            *)
(***************************************************************************)
HistoryCalls(t) ==
    Cardinality({j \in 1..Len(fetch_log) :
                    fetch_log[j].ticker = t /\ fetch_log[j].event = "fetching"})
LoggedAs(t, level) ==
    \E j \in 1..Len(fetch_log) : fetch_log[j].ticker = t /\ fetch_log[j].level = level
Refused(t) == ~endswith_raises(company_list) /\ yf[t].kind = "rate_limited"
C25_TransientRetried ==
    \A t \in DOMAIN stock_data :
        (Fetched(t) /\ Refused(t)) => HistoryCalls(t) > 1
\* the refused request is logged as an error and the instrument skipped
C25_LoggedAndSkipped ==
    \E t \in DOMAIN stock_data :
        /\ Refused(t) /\ stock_data[t] = "None"
        /\ LoggedAs(t, "error") /\ HistoryCalls(t) = 1

(***************************************************************************)
(* C26: every instrument the Ichimoku cross extraction skips, for too few  *)
(* rows or for an undefined Tenkan or Kijun value, has a log record that   *)
(* names it.                                                               *)
(***************************************************************************)
CrossSkipped(k) ==
    \/ ich[k].data_length < 2
    \/ LinesUndefined(ich[k], ich[k].data_length - 1)
CrossLogged(k) ==
    \E j \in 1..Len(cross_log) : cross_log[j].ticker = k
C26_EverySkipLogged ==
    CrossExtracted => \A k \in 1..Len(ich) : CrossSkipped(k) => CrossLogged(k)
\* the skip for too few rows is logged, as is a classified instrument
C26_ShortLogged ==
    CrossExtracted /\ ich[1].data_length < 2 /\ CrossLogged(1)
C26_ClassifiedLogged ==
    CrossExtracted /\ InCrossFile(1, "ichimoku_GC_under_cloud.csv") /\ CrossLogged(1)

(***************************************************************************)
(* C27: once extract_all_ichimoku_signals has returned, every three-phase  *)
(* file and every Ichimoku cross file whose own write can succeed has been *)
(* written with the rows its bucket selects from the snapshot and the      *)
(* signal files: the failure of the basic signal tables, of a strong-trend *)
(* extractor or of another bucket's write does not keep it from being      *)
(* produced.                                                               *)
(***************************************************************************)
AllReturned == pcMain \in {"charts", "return_0"} /\ snapshot.kind = "table"
SanyakuWritten(file) ==
    sanyaku_csv[file] = extract_sanyaku_signals(read_csv(snapshot))[file]
CrossWritten(file) ==
    ichimoku_cross[file] = extract_ichimoku_cross_signals(read_csv(snapshot), signal_csv)[file]
C27_BucketsIndependent ==
    AllReturned =>
        /\ \A file \in SanyakuFiles \ blocked : SanyakuWritten(file)
        /\ \A file \in CrossFiles \ blocked : CrossWritten(file)
\* a run without failure writes every file, with an instrument in a
\* three-phase file and one in a cross file
C27_AllWritten ==
    /\ AllReturned /\ blocked = {} /\ ichimoku_results.returned
    /\ \A file \in SanyakuFiles : SanyakuWritten(file)
    /\ \A file \in CrossFiles : CrossWritten(file)
    /\ \E file \in SanyakuFiles : sanyaku_csv[file].rows # <<>>
    /\ \E file \in CrossFiles : ichimoku_cross[file] # <<>>
\* the run in which a write of the basic signal tables raises and a cross
\* is left out
C27_CrossLeftOut ==
    /\ AllReturned /\ blocked = {"macd_rsi_rci_signal_result_sell.csv"}
    /\ ichimoku_results.ran = {}
    /\ \E file \in CrossFiles : ichimoku_cross[file] = <<>> /\ ~CrossWritten(file)
\* the run in which the write of the second three-phase file raises: the
\* first one is written, the cross files are not
C27_SanyakuHalfWritten ==
    /\ AllReturned /\ blocked = {"sanyaku_anten.csv"}
    /\ sanyaku_csv["sanyaku_kouten.csv"].kind = "table"
    /\ sanyaku_csv["sanyaku_anten.csv"] = Absent
    /\ cross_log = <<>>
\* the run in which the write of the last cross file raises: the loop has
\* left its records and the files before it are written
C27_CrossHalfWritten ==
    /\ AllReturned /\ blocked = {"ichimoku_DC_under_cloud.csv"}
    /\ ~ichimoku_results.returned
    /\ cross_log # <<>>
    /\ \E file \in CrossFiles : ichimoku_cross[file] # <<>>

(***************************************************************************)
(* C28: an instrument whose fetch failed in this run (an exception or an   *)
(* empty result) has no row in the combined snapshot the run writes and is *)
(* in none of its strong-trend and push-mark buckets, whatever price file  *)
(* an earlier run left for it.                                             *)
(***************************************************************************)
FetchFailed(t) == t \in DOMAIN stock_data /\ stock_data[t] = "None"
C28_FailedFetchNoRow ==
    \A t \in DOMAIN stock_data :
        FetchFailed(t) =>
            /\ t \notin TickersOf(snapshot)
            /\ t \notin TickersOf(strong_buying_trend)
            /\ t \notin TickersOf(strong_selling_trend)
            /\ t \notin TickersOf(push_mark)
\* the row of an instrument that was not fetched, from the file left on disk
C28_StaleRow ==
    \E t \in DOMAIN stock_data :
        /\ FetchFailed(t) /\ yf[t].kind = "exception"
        /\ price_csv[t].kind = "frame" /\ t \in TickersOf(snapshot)

(***************************************************************************)
(* C29: a run in which no instrument is processed successfully, and which  *)
(* therefore writes no combined snapshot, derives no bucket from the       *)
(* snapshot an earlier run left: its extractors do not report success and  *)
(* its strong-trend and push-mark outputs list no instrument.              *)
(***************************************************************************)
ExtractorsOver == pcMain \in {"charts", "return_0"} /\ ~charts_only
NoneProcessed == \A t \in DOMAIN results : results[t] # "True"
C29_NoStaleBuckets ==
    (ExtractorsOver /\ NoneProcessed) =>
        /\ extract_success # "True"
        /\ TickersOf(strong_buying_trend) = {}
        /\ TickersOf(strong_selling_trend) = {}
        /\ TickersOf(push_mark) = {}
\* a bucket of this run that lists the instrument of the earlier snapshot
C29_StaleBucket ==
    /\ ExtractorsOver /\ NoneProcessed
    /\ 1 \in TickersOf(strong_buying_trend) \cup TickersOf(strong_selling_trend)
                \cup TickersOf(push_mark)
\* a run that does process its instrument writes its own snapshot
C29_FreshSnapshot ==
    /\ ExtractorsOver /\ results[1] = "True"
    /\ snapshot = Table(all_latest_signals)

(***************************************************************************)
(* C30: the image upload ends after at most 5 POSTs: it returns the URL of *)
(* the first response whose status is 200 or 201, posts again only after a *)
(* response with status 403, 429, 500, 502 or 503 and a wait of            *)
(* 2 + 2*attempt seconds, stops without another POST on any other status,  *)
(* and returns no URL when all five responses were transient.              *)
(***************************************************************************)
UploadReturned == pcUpload = "returned"
Transient(resp) ==
    resp.kind = "response" /\ resp.status_code \in {403, 429, 500, 502, 503}
Success(resp) == resp.kind = "response" /\ resp.status_code \in {200, 201}
UploadSafe ==
    /\ Len(responses) <= 5
    /\ \A i \in 1..Len(responses) :
           \/ Transient(responses[i]) /\ Len(sleeps) >= i /\ sleeps[i] = 2 + 2 * (i - 1)
           \/ ~Transient(responses[i]) /\ i = Len(responses) /\ pcUpload # "loop"
                  /\ Len(sleeps) = i - 1
    /\ UploadReturned /\ responses # <<>> =>
           LET last == responses[Len(responses)]
           IN  IF Success(last)
               THEN upload_result = last.source_url
               ELSE upload_result = "None"
C30_UploadTerminates == []UploadSafe /\ <>UploadReturned
\* five transient responses in a row, and no URL returned
C30_Witness ==
    /\ UploadReturned /\ Len(responses) = 5 /\ upload_result = "None"
    /\ \A i \in 1..5 : Transient(responses[i])
    /\ sleeps = <<2, 4, 6, 8, 10>>
\* a success at a later attempt returns the URL of that response
C30_LateSuccess ==
    /\ UploadReturned /\ Len(responses) = 3 /\ Success(responses[3])
    /\ upload_result = responses[3].source_url

====
